---- MODULE Spec2Model ----
(***************************************************************************)
(* A model of the two container readers of MO2_Pak_support:                *)
(*   - pak::PakReader   (src/pak_reader/src/pak_reader.cpp)                *)
(*   - utoc::UtocReader (src/utoc_reader/src/utoc_reader.cpp)              *)
(* Files are sequences of bytes; the readers are modelled at the level of  *)
(* the stream / cursor reads they perform.  A 32-bit or 64-bit field is    *)
(* kept as its little-endian bytes and converted to a number only where    *)
(* the code uses it as a count, a length or a position.                    *)
(***************************************************************************)
EXTENDS Integers, Sequences, FiniteSets, TLC

(***************************************************************************)
(* Bytes, little-endian fields and strings                                 *)
(***************************************************************************)

\* n zero bytes
Zeros(n) == [i \in 1..n |-> 0]

\* a 32-bit field holding n (0 <= n < 2^31), little-endian
U32(n) == <<n % 256, (n \div 256) % 256, (n \div 65536) % 256, (n \div 16777216) % 256>>

\* a 64-bit field holding n (0 <= n < 2^31), little-endian
U64(n) == U32(n) \o Zeros(4)

\* a signed 32-bit field holding -n (0 < n < 2^31), little-endian two's complement
NegI32(n) ==
  <<(256 - (n % 256)) % 256,
    255 - (((n - 1) \div 256) % 256),
    255 - (((n - 1) \div 65536) % 256),
    255 - (((n - 1) \div 16777216) % 256)>>

\* the largest count the model distinguishes: any field at or above it acts
\* like it (a count or position far beyond every file of the model)
Huge == 1000000

\* the value of an unsigned 32-bit field, saturated at Huge
Val32(b) ==
  IF b[3] >= 16 \/ b[4] # 0 THEN Huge
  ELSE LET n == b[1] + 256 * b[2] + 65536 * b[3] IN IF n > Huge THEN Huge ELSE n

\* the value of a signed 32-bit field (int32_t), saturated at +-Huge
ValI32(b) ==
  IF b[4] < 128 THEN Val32(b)
  ELSE IF b[4] # 255 \/ b[3] < 240 THEN 0 - Huge
  ELSE LET n == (255 - b[1]) + 256 * (255 - b[2]) + 65536 * (255 - b[3]) + 1
       IN  IF n > Huge THEN 0 - Huge ELSE 0 - n

\* the value of an unsigned 64-bit field, saturated at Huge
Val64(b) ==
  IF \E i \in 5..8 : b[i] # 0 THEN Huge ELSE Val32(SubSeq(b, 1, 4))

\* the index of the first zero byte of s at or after i, Len(s)+1 when none
RECURSIVE FirstNul(_, _)
FirstNul(s, i) ==
  IF i > Len(s) THEN Len(s) + 1
  ELSE IF s[i] = 0 THEN i
  ELSE FirstNul(s, i + 1)

\* s cut at its first zero byte
UpToNul(s) == SubSeq(s, 1, FirstNul(s, 1) - 1)

\* '/'
Slash == 47

\* lexicographic order on byte strings (std::string operator<)
RECURSIVE LexLess(_, _)
LexLess(a, b) ==
  IF b = <<>> THEN FALSE
  ELSE IF a = <<>> THEN TRUE
  ELSE IF Head(a) # Head(b) THEN Head(a) < Head(b)
  ELSE LexLess(Tail(a), Tail(b))

\* the elements of a finite set of byte strings in ascending order
RECURSIVE SortedSeq(_)
SortedSeq(S) ==
  IF S = {} THEN <<>>
  ELSE LET m == CHOOSE x \in S : \A y \in S : y = x \/ LexLess(x, y)
       IN  <<m>> \o SortedSeq(S \ {m})

\* the concatenation of a sequence of byte strings
RECURSIVE Flatten(_)
Flatten(ss) == IF ss = <<>> THEN <<>> ELSE Head(ss) \o Flatten(Tail(ss))

(***************************************************************************)
(* PAK: versions, footer size                                              *)
(***************************************************************************)

V0 == 0
V1 == 1
V2 == 2
V3 == 3
V4 == 4
V5 == 5
V6 == 6
V7 == 7
V8A == 8
V8B == 9
V9 == 10
V10 == 11
V11 == 12

Unknown == 0
Initial == 1
NoTimestamps == 2
CompressionEncryption == 3
IndexEncryption == 4
RelativeChunkOffsets == 5
DeleteRecords == 6
EncryptionKeyGuid == 7
FNameBasedCompression == 8
FrozenIndex == 9
PathHashIndex == 10
Fnv64BugFix == 11

\* constexpr uint32_t MAGIC = 0x5A6F12E1, as its little-endian bytes
MAGIC == <<225, 18, 111, 90>>

\* the invalid encoded offset 0x80000000 of the full directory index
InvalidEncodedOffset == <<0, 0, 0, 128>>

version_to_major(version) ==
  CASE version = V0 -> Unknown
    [] version = V1 -> Initial
    [] version = V2 -> NoTimestamps
    [] version = V3 -> CompressionEncryption
    [] version = V4 -> IndexEncryption
    [] version = V5 -> RelativeChunkOffsets
    [] version = V6 -> DeleteRecords
    [] version = V7 -> EncryptionKeyGuid
    [] version = V8A -> FNameBasedCompression
    [] version = V8B -> FNameBasedCompression
    [] version = V9 -> FrozenIndex
    [] version = V10 -> PathHashIndex
    [] version = V11 -> Fnv64BugFix
    [] OTHER -> Unknown

get_footer_size(version) ==
  (4 + 4 + 8 + 8 + 20)
  + (IF version_to_major(version) >= EncryptionKeyGuid THEN 16 ELSE 0)
  + (IF version_to_major(version) >= IndexEncryption THEN 1 ELSE 0)
  + (IF version_to_major(version) = FrozenIndex THEN 1 ELSE 0)
  + (IF version >= V8A THEN 32 * 4 ELSE 0)
  + (IF version >= V8B THEN 32 ELSE 0)

(***************************************************************************)
(* State                                                                   *)
(***************************************************************************)

VARIABLES
  pakInput,      \* what the file under test was built from (not read by the reader)
  pakFile,       \* the bytes of the file PakReader is constructed on
  pak_pc,        \* where the constructor is: "open", "footer", "index", "done", "failed"
  v,             \* the loop variable of the version probe
  stream_,       \* std::ifstream stream_: [pos, fail]
  footer_,       \* Footer footer_
  mount_point_,  \* std::string mount_point_
  entries_,      \* std::map<std::string, Entry> entries_
  attempts,      \* history: the versions passed to read_footer, in order
  refusedAt,     \* history: the version whose read_index threw the encrypted-index error (V0: none)
  thrown,        \* the message of the exception that left the constructor ("" : none)
  reader,        \* TRUE while a PakReader object exists for the caller
  stream_is_open \* stream_ holds an open file (stream_.is_open())

pakVars == <<pakInput, pakFile, pak_pc, v, stream_, footer_, mount_point_, entries_,
             attempts, refusedAt, thrown, reader, stream_is_open>>

VARIABLES
  utocInput,     \* what the file last passed to Open was built from (not read by the reader)
  fileData,      \* std::vector<uint8_t> fileData of the last Open
  header_,       \* FIoStoreTocHeader header_: its 144 bytes
  chunk_ids_,    \* std::vector<FIoChunkId>: 12 bytes each
  chunk_offset_lengths_,               \* std::vector<FIoOffsetAndLength>: 10 bytes each
  chunk_perfect_hash_seeds_,           \* std::vector<int32_t>: 4 bytes each
  chunk_indices_without_perfect_hash_, \* std::vector<int32_t>: 4 bytes each
  compression_blocks_,                 \* std::vector<FIoStoreTocCompressedBlockEntry>: 12 bytes each
  compression_methods_,                \* std::vector<std::string>
  chunk_metas_,  \* std::vector<FIoStoreTocEntryMeta>: [chunk_hash, flags]
  directory_index_, \* FIoDirectoryIndexResource
  file_map_,     \* the keys of std::unordered_map<uint32_t, std::string> file_map_
  opened,        \* how the last Open ended: "" (none yet), "true", "false", "threw"
  open_offset,   \* history: Open's local offset when it ended
  sections,      \* history: the sections the last Open copied out of fileData, in order
  open_ub,       \* history: the last Open read outside a buffer
  opens,         \* the number of Open calls so far
  paths,         \* what the last GetAllFilePaths call returned (<<>>: not called)
  file_is_open   \* a std::ifstream made by Open still holds the file open

\* the members of UtocReader
utocMembers ==
  <<header_, chunk_ids_, chunk_offset_lengths_, chunk_perfect_hash_seeds_,
    chunk_indices_without_perfect_hash_, compression_blocks_, compression_methods_,
    chunk_metas_, directory_index_, file_map_>>

utocVars ==
  <<utocInput, fileData, utocMembers, opened, open_offset, sections, open_ub, opens, paths,
    file_is_open>>

VARIABLES
  record,        \* the bytes of an FIoOffsetAndLength or FIoStoreTocCompressedBlockEntry
  fields         \* what the accessors returned for record (<<>>: not called)

recordVars == <<record, fields>>

vars == <<pakVars, utocVars, recordVars>>

\* no record is being looked at
NoRecord == record = <<>> /\ fields = <<>>

\* FIoDirectoryIndexResource after default construction
EmptyDirectoryIndex ==
  [mount_point |-> <<>>, directory_entries |-> <<>>, file_entries |-> <<>>,
   string_table |-> <<>>]

\* UtocReader() = default: the vectors are empty; header_ has no initialiser
\* and holds h
UtocConstructed(h) ==
  /\ utocInput = [kind |-> "none"]
  /\ fileData = <<>>
  /\ header_ = h
  /\ chunk_ids_ = <<>>
  /\ chunk_offset_lengths_ = <<>>
  /\ chunk_perfect_hash_seeds_ = <<>>
  /\ chunk_indices_without_perfect_hash_ = <<>>
  /\ compression_blocks_ = <<>>
  /\ compression_methods_ = <<>>
  /\ chunk_metas_ = <<>>
  /\ directory_index_ = EmptyDirectoryIndex
  /\ file_map_ = {}
  /\ opened = ""
  /\ open_offset = 0
  /\ sections = <<>>
  /\ open_ub = FALSE
  /\ opens = 0
  /\ paths = <<>>
  /\ file_is_open = FALSE

\* no PakReader is being constructed
PakAbsent ==
  /\ pakInput = [kind |-> "none"]
  /\ pakFile = <<>>
  /\ pak_pc = "none"
  /\ v = 0
  /\ stream_ = [pos |-> 0, fail |-> FALSE]
  /\ footer_ = <<>>
  /\ mount_point_ = <<>>
  /\ entries_ = <<>>
  /\ attempts = <<>>
  /\ refusedAt = 0
  /\ thrown = ""
  /\ reader = FALSE
  /\ stream_is_open = FALSE

(***************************************************************************)
(* PAK: the stream                                                         *)
(***************************************************************************)

\* the length of the file behind stream_
FL == Len(pakFile)

\* stream_.seekg(-n, std::ios::end): a position before the start sets failbit;
\* a failed stream is left alone
SeekEnd(st, n) ==
  IF st.fail THEN st
  ELSE IF FL - n < 0 THEN [st EXCEPT !.fail = TRUE]
  ELSE [pos |-> FL - n, fail |-> FALSE]

\* stream_.seekg(pos) with pos an unsigned 64-bit field: a value with the top bit
\* set is a negative stream offset and sets failbit; a position beyond the end
\* of the file is accepted (the next read finds nothing there)
SeekAbs(st, b8) ==
  IF st.fail THEN st
  ELSE IF b8[8] >= 128 THEN [st EXCEPT !.fail = TRUE]
  ELSE [pos |-> Val64(b8), fail |-> FALSE]

\* stream_.seekg(n, std::ios::cur)
SeekCur(st, n) ==
  IF st.fail THEN st ELSE [st EXCEPT !.pos = @ + n]

\* the bytes left between the position and the end of the file
Avail(st) == IF st.pos >= FL THEN 0 ELSE FL - st.pos

\* stream_.read(buf, n): buf holds `init` before the call.  A failed stream
\* leaves buf alone; a short read fills what there is and sets eofbit|failbit.
ReadBytes(st, n, init) ==
  IF st.fail THEN [bytes |-> init, st |-> st]
  ELSE IF n <= Avail(st)
    THEN [bytes |-> SubSeq(pakFile, st.pos + 1, st.pos + n),
          st |-> [st EXCEPT !.pos = @ + n]]
    ELSE [bytes |-> SubSeq(pakFile, st.pos + 1, st.pos + Avail(st))
                      \o SubSeq(init, Avail(st) + 1, n),
          st |-> [pos |-> st.pos + Avail(st), fail |-> TRUE]]

\* stream_.read of n bytes whose content the model does not keep
ReadSkip(st, n) ==
  IF st.fail THEN st
  ELSE IF n <= Avail(st) THEN [st EXCEPT !.pos = @ + n]
  ELSE [pos |-> st.pos + Avail(st), fail |-> TRUE]

\* what stream_.read of n bytes puts into a zero-filled buffer, without the
\* zeros that stay behind it
ReadSome(st, n) ==
  IF st.fail \/ Avail(st) = 0 \/ n = 0 THEN <<>>
  ELSE SubSeq(pakFile, st.pos + 1, st.pos + (IF n <= Avail(st) THEN n ELSE Avail(st)))

\* the 16-bit code units a byte buffer holds (a missing high byte is 0)
code_units(data) ==
  [i \in 1..((Len(data) + 1) \div 2) |->
     data[2 * i - 1] + 256 * (IF 2 * i <= Len(data) THEN data[2 * i] ELSE 0)]

\* read_string's conversion of UTF-16 units: ASCII is kept, anything else is '?'
utf16_to_ascii(units) ==
  [i \in 1..Len(units) |-> IF units[i] < 128 THEN units[i] ELSE 63]

\* read_string after its length: the characters are read into a zero-filled
\* vector, so whatever the file does not supply reads as NUL.  A length at or
\* beyond Huge may make the vector's allocation throw (`allocFail`).
string_of(st, length, allocFail) ==
  IF (length >= Huge \/ 0 - length >= Huge) /\ allocFail
    THEN [s |-> <<>>, st |-> st, threw |-> TRUE]
  ELSE IF length < 0
    THEN [s |-> utf16_to_ascii(UpToNul(code_units(ReadSome(st, 2 * (0 - length))))),
          st |-> ReadSkip(st, 2 * (0 - length)), threw |-> FALSE]
  ELSE [s |-> UpToNul(ReadSome(st, length)), st |-> ReadSkip(st, length), threw |-> FALSE]

\* read_string after the read of its length field
string_body(r, allocFail) == string_of(r.st, ValI32(r.bytes), allocFail)

\* read_string(stream): [s, st, threw].  The length is an uninitialised local
\* when its read fails (garbage `glen`).
read_string(st, glen, allocFail) == string_body(ReadBytes(st, 4, glen), allocFail)

(***************************************************************************)
(* PAK: read_footer                                                        *)
(***************************************************************************)

\* enum class Compression
Zlib == 0
Gzip == 1
Oodle == 2
Zstd == 3
LZ4 == 4

\* the names read_footer recognises, as bytes: "Zlib", "Gzip", "Oodle", "Zstd", "LZ4"
NameZlib == <<90, 108, 105, 98>>
NameGzip == <<71, 122, 105, 112>>
NameOodle == <<79, 111, 100, 108, 101>>
NameZstd == <<90, 115, 116, 100>>
NameLZ4 == <<76, 90, 52>>

\* the optional Compression a 32-byte name field stands for (<<>> is std::nullopt)
compression_of(name) ==
  LET compression_name == UpToNul(name)
  IN  IF compression_name = <<>> THEN <<>>
      ELSE IF compression_name = NameZlib THEN <<Zlib>>
      ELSE IF compression_name = NameGzip THEN <<Gzip>>
      ELSE IF compression_name = NameOodle THEN <<Oodle>>
      ELSE IF compression_name = NameZstd THEN <<Zstd>>
      ELSE IF compression_name = NameLZ4 THEN <<LZ4>>
      ELSE <<>>

\* a count that stays at four names from V8A on
CountWithoutFifthName(version) == IF version < V8A THEN 0 ELSE 4

\* a count that takes V8A for V8B
FiveNamesFromV8A(version) == IF version < V8A THEN 0 ELSE 5

\* the number of 32-byte compression names read for a version
compression_count(version) ==
  IF version < V8A THEN 0 ELSE IF version < V8B THEN 4 ELSE 5

\* the loop reading the compression names: [list, st]
RECURSIVE read_compression_names(_, _)
read_compression_names(st, k) ==
  IF k = 0 THEN [list |-> <<>>, st |-> st]
  ELSE LET r == ReadBytes(st, 32, Zeros(32))
           rest == read_compression_names(r.st, k - 1)
       IN  [list |-> <<compression_of(r.bytes)>> \o rest.list, st |-> rest.st]

\* what uninitialised locals of read_footer hold when their read fails
GarbageFooter ==
  [bool : {0, 1, 2}, magic : {MAGIC, U32(0)}, majorOk : BOOLEAN, frozen : {0, 1, 2}]

\* read_footer(version) on footer f0 and stream st0: [threw, err, footer, st].
\* The members of footer_ are assigned as the reads go, so an exception leaves
\* the ones assigned before it.
read_footer(version, f0, st0, g) ==
  LET major == version_to_major(version)
      s1 == SeekEnd(st0, get_footer_size(version))
      hasUuid == major >= EncryptionKeyGuid
      rUuid == IF hasUuid THEN ReadBytes(s1, 16, Zeros(16)) ELSE [bytes |-> <<>>, st |-> s1]
      F1 == [f0 EXCEPT !.encryption_uuid = IF hasUuid THEN <<rUuid.bytes>> ELSE <<>>]
      hasEnc == major >= IndexEncryption
      rEnc == IF hasEnc THEN ReadBytes(rUuid.st, 1, <<g.bool>>)
              ELSE [bytes |-> <<0>>, st |-> rUuid.st]
      F2 == [F1 EXCEPT !.encrypted = IF hasEnc THEN rEnc.bytes[1] = 1 ELSE FALSE]
      rMagic == ReadBytes(rEnc.st, 4, g.magic)
      F3 == [F2 EXCEPT !.magic = rMagic.bytes]
      rMajor == ReadBytes(rMagic.st, 4, IF g.majorOk THEN U32(major) ELSE U32(Unknown))
      F4 == [F3 EXCEPT !.version_major = Val32(rMajor.bytes)]
      rOff == ReadBytes(rMajor.st, 8, f0.index_offset)
      rSize == ReadBytes(rOff.st, 8, f0.index_size)
      rHash == ReadBytes(rSize.st, 20, Zeros(20))
      F5 == [F4 EXCEPT !.index_offset = rOff.bytes, !.index_size = rSize.bytes]
      hasFrozen == major = FrozenIndex
      rFrozen == IF hasFrozen THEN ReadBytes(rHash.st, 1, <<g.frozen>>)
                 ELSE [bytes |-> <<0>>, st |-> rHash.st]
      F6 == [F5 EXCEPT !.frozen = IF hasFrozen THEN rFrozen.bytes[1] = 1 ELSE FALSE]
      rNames == read_compression_names(rFrozen.st, compression_count(version))
      F7 == [F6 EXCEPT !.compression =
                rNames.list \o (IF major < FNameBasedCompression
                                  THEN <<<<Zlib>>, <<Gzip>>, <<Oodle>>>> ELSE <<>>),
              !.version = version]
  IN  IF hasEnc /\ rEnc.bytes[1] \notin {0, 1}
        THEN [threw |-> TRUE, err |-> "Invalid boolean value", footer |-> F1, st |-> rEnc.st]
      ELSE IF rMagic.bytes # MAGIC
        THEN [threw |-> TRUE, err |-> "Invalid magic number", footer |-> F2, st |-> rMagic.st]
      ELSE IF major # F4.version_major
        THEN [threw |-> TRUE, err |-> "Version mismatch", footer |-> F4, st |-> rMajor.st]
      ELSE IF hasFrozen /\ rFrozen.bytes[1] \notin {0, 1}
        THEN [threw |-> TRUE, err |-> "Invalid boolean value", footer |-> F5, st |-> rFrozen.st]
      ELSE [threw |-> FALSE, err |-> "", footer |-> F7, st |-> rNames.st]

(***************************************************************************)
(* PAK: read_entry and read_index.  Each operator stands for a stretch of  *)
(* the function and hands what it read to the operator of the next stretch.*)
(***************************************************************************)

\* what uninitialised locals of read_index and read_entry hold when their read
\* fails, and whether an allocation of Huge or more elements throws
GarbageIndex ==
  [count : {U32(0), U32(1)}, flag : {U32(0), U32(1)},
   off : {U32(0), InvalidEncodedOffset}, allocFail : BOOLEAN]

\* entries_[path] = entry
MapPut(m, path, entry) ==
  [p \in DOMAIN m \cup {path} |-> IF p = path THEN entry ELSE m[p]]

\* compression == 0 ? std::nullopt : compression - 1
slot_of(compression) == IF compression = 0 THEN <<>> ELSE <<compression - 1>>

\* read_entry from the compression field read (rComp) to the hash: [slot, st]
entry_head(rComp, f) ==
  [slot |-> slot_of(IF f.version = V8A THEN rComp.bytes[1] ELSE Val32(rComp.bytes)),
   st |-> ReadSkip(ReadSkip(rComp.st, IF f.version_major = Initial THEN 8 ELSE 0), 20)]

\* read_entry's block list after its count was read: [slot, blocks, st, threw]
blocks_of(slot, rCount, g) ==
  [slot |-> slot,
   blocks |-> <<Val32(rCount.bytes)>>,
   st |-> ReadSkip(rCount.st, 16 * Val32(rCount.bytes)),
   threw |-> Val32(rCount.bytes) >= Huge /\ g.allocFail]

\* a read_entry that reads blocks for every entry with a slot, whatever the version
BlocksWheneverSlot(h, f, g) ==
  IF h.slot # <<>>
    THEN blocks_of(h.slot, ReadBytes(h.st, 4, g.count), g)
    ELSE [slot |-> h.slot, blocks |-> <<>>, st |-> h.st, threw |-> FALSE]

\* read_entry's "Read blocks if present": [slot, blocks, st, threw]
entry_blocks(h, f, g) ==
  IF f.version_major >= CompressionEncryption /\ h.slot # <<>>
    THEN blocks_of(h.slot, ReadBytes(h.st, 4, g.count), g)
    ELSE [slot |-> h.slot, blocks |-> <<>>, st |-> h.st, threw |-> FALSE]

\* the Entry read_entry returns.  The model keeps of it the compression_slot,
\* whether it has a timestamp, its blocks (<<>>: std::nullopt, <<n>>: n blocks)
\* and its flags.
entry_of(b, f, flags) ==
  [compression_slot |-> b.slot, timestamp |-> f.version_major = Initial,
   blocks |-> b.blocks, flags |-> flags]

\* read_entry's "Read flags and compression block size if present"
entry_tail(b, f) ==
  IF f.version_major >= CompressionEncryption
    THEN [threw |-> b.threw, entry |-> entry_of(b, f, ReadBytes(b.st, 1, <<0>>).bytes[1]),
          st |-> ReadSkip(b.st, 1 + 4)]
    ELSE [threw |-> b.threw, entry |-> entry_of(b, f, 0), st |-> b.st]

\* read_entry(): [threw, entry, st]
read_entry(st, f, g) ==
  entry_tail(
    entry_blocks(
      entry_head(IF f.version = V8A THEN ReadBytes(ReadSkip(st, 8 + 8 + 8), 1, <<0>>)
                 ELSE ReadBytes(ReadSkip(st, 8 + 8 + 8), 4, U32(0)), f),
      f, g),
    f)

\* the loop of the pre-V10 index, from iteration i: [threw, entries, st].
\* Once the stream has failed every further iteration reads nothing and stores
\* under the same key, so one iteration stands for all that remain.
RECURSIVE read_entries(_, _, _, _, _, _)

\* the iteration after path and entry were read: entries_[path] = entry
entries_store(st, i, entry_count, m, f, g, path, rEntry) ==
  IF rEntry.threw THEN [threw |-> TRUE, entries |-> m, st |-> rEntry.st]
  ELSE IF st.fail
    THEN [threw |-> FALSE, entries |-> MapPut(m, path, rEntry.entry), st |-> rEntry.st]
  ELSE read_entries(rEntry.st, i + 1, entry_count, MapPut(m, path, rEntry.entry), f, g)

\* the iteration after its path was read
entries_step(st, i, entry_count, m, f, g, rPath) ==
  IF rPath.threw THEN [threw |-> TRUE, entries |-> m, st |-> rPath.st]
  ELSE entries_store(st, i, entry_count, m, f, g, rPath.s, read_entry(rPath.st, f, g))

read_entries(st, i, entry_count, m, f, g) ==
  IF i >= entry_count THEN [threw |-> FALSE, entries |-> m, st |-> st]
  ELSE entries_step(st, i, entry_count, m, f, g, read_string(st, U32(0), g.allocFail))

\* the path the full directory index stores for (dir_name, file_name), before
\* the leading slash is stripped
joined_path(dir_name, file_name) ==
  (IF dir_name # <<>> /\ dir_name[Len(dir_name)] # Slash
     THEN dir_name \o <<Slash>> ELSE dir_name) \o file_name

\* "Strip leading slash if present"
strip_leading_slash(path) ==
  IF path # <<>> /\ path[1] = Slash THEN Tail(path) ELSE path

\* the path the full directory index stores for (dir_name, file_name)
full_path(dir_name, file_name) == strip_leading_slash(joined_path(dir_name, file_name))

\* the Entry the full directory index stores for every file
dummy_entry ==
  [compression_slot |-> <<>>, timestamp |-> FALSE, blocks |-> <<>>, flags |-> 0]

\* the loop over the files of one directory, from file j: [threw, entries, st]
RECURSIVE read_dir_files(_, _, _, _, _, _)

\* the iteration after file_name and encoded_offset were read
dir_file_store(st, j, file_count, dir_name, m, g, file_name, rOff) ==
  IF st.fail
    THEN [threw |-> FALSE,
          entries |-> IF rOff.bytes = InvalidEncodedOffset THEN m
                      ELSE MapPut(m, full_path(dir_name, file_name), dummy_entry),
          st |-> rOff.st]
    ELSE read_dir_files(rOff.st, j + 1, file_count, dir_name,
                        IF rOff.bytes = InvalidEncodedOffset THEN m
                        ELSE MapPut(m, full_path(dir_name, file_name), dummy_entry), g)

\* the iteration after file_name was read
dir_file_step(st, j, file_count, dir_name, m, g, rName) ==
  IF rName.threw THEN [threw |-> TRUE, entries |-> m, st |-> rName.st]
  ELSE dir_file_store(st, j, file_count, dir_name, m, g, rName.s,
                      ReadBytes(rName.st, 4, g.off))

read_dir_files(st, j, file_count, dir_name, m, g) ==
  IF j >= file_count THEN [threw |-> FALSE, entries |-> m, st |-> st]
  ELSE dir_file_step(st, j, file_count, dir_name, m, g,
                     read_string(st, U32(0), g.allocFail))

\* the loop over the directories of the full directory index, from directory i
RECURSIVE read_dirs(_, _, _, _, _)

\* the iteration after the files of the directory were read
dirs_next(st, i, dir_count, g, rFiles) ==
  IF rFiles.threw \/ st.fail THEN rFiles
  ELSE read_dirs(rFiles.st, i + 1, dir_count, rFiles.entries, g)

\* the iteration after dir_name and file_count were read
dirs_files(st, i, dir_count, m, g, dir_name, rCount) ==
  dirs_next(st, i, dir_count, g,
            read_dir_files(rCount.st, 0, Val32(rCount.bytes), dir_name, m, g))

\* the iteration after dir_name was read
dirs_step(st, i, dir_count, m, g, rDir) ==
  IF rDir.threw THEN [threw |-> TRUE, entries |-> m, st |-> rDir.st]
  ELSE dirs_files(st, i, dir_count, m, g, rDir.s, ReadBytes(rDir.st, 4, g.count))

read_dirs(st, i, dir_count, m, g) ==
  IF i >= dir_count THEN [threw |-> FALSE, entries |-> m, st |-> st]
  ELSE dirs_step(st, i, dir_count, m, g, read_string(st, U32(0), g.allocFail))

\* a parse that leaves the stream where the directories ended
StayAfterDirectories(current_pos, rDirs) == rDirs

\* "Restore position": stream_.seekg(current_pos)
fdi_restore(current_pos, rDirs) ==
  IF rDirs.threw \/ rDirs.st.fail THEN rDirs
  ELSE [rDirs EXCEPT !.st = [pos |-> current_pos, fail |-> FALSE]]

\* the full directory index after dir_count was read
fdi_dirs(rDirCount, m, g) == read_dirs(rDirCount.st, 0, Val32(rDirCount.bytes), m, g)

\* the full directory index from "Save current position" (stream s3) on
fdi_read(s3, offset, m, g) ==
  fdi_restore(s3.pos, fdi_dirs(ReadBytes(SeekAbs(s3, offset), 4, g.count), m, g))

\* the full directory index after its offset was read: its size, "Skip hash"
fdi_seek(rFdiOff, m, g) ==
  fdi_read(SeekCur(ReadSkip(rFdiOff.st, 8), 20), rFdiOff.bytes, m, g)

\* "Read full directory index if present", after has_full_directory_index was read
fdi_flag(rHasFdi, m, g) ==
  IF rHasFdi.bytes = U32(0) THEN [threw |-> FALSE, entries |-> m, st |-> rHasFdi.st]
  ELSE fdi_seek(ReadBytes(rHasFdi.st, 8, U64(0)), m, g)

\* "Skip path hash index if present", after has_path_hash_index was read
phi_skip(rHasPhi) ==
  IF rHasPhi.bytes # U32(0) THEN SeekCur(ReadSkip(ReadSkip(rHasPhi.st, 8), 8), 20)
  ELSE rHasPhi.st

\* the V10+ branch of read_index after entry_count: [threw, entries, st]
read_path_hash_index(st, m, g) ==
  fdi_flag(ReadBytes(phi_skip(ReadBytes(ReadSkip(st, 8), 4, g.flag)), 4, g.flag), m, g)

\* read_index's result
index_result(mount, body) ==
  [threw |-> body.threw, err |-> IF body.threw THEN "std::bad_alloc" ELSE "",
   mount |-> mount, entries |-> body.entries, st |-> body.st]

\* read_index after entry_count was read: the two index formats
index_entries(f, mount, entries0, g, rCount) ==
  index_result(mount,
    IF f.version_major >= PathHashIndex
      THEN read_path_hash_index(rCount.st, entries0, g)
      ELSE read_entries(rCount.st, 0, Val32(rCount.bytes), entries0, f, g))

\* read_index after the mount point was read
index_body(f, mount0, entries0, g, rMount) ==
  IF rMount.threw
    THEN [threw |-> TRUE, err |-> "std::bad_alloc",
          mount |-> mount0, entries |-> entries0, st |-> rMount.st]
    ELSE index_entries(f, rMount.s, entries0, g, ReadBytes(rMount.st, 4, g.count))

\* read_index() on footer f: [threw, err, mount, entries, st]
read_index(f, st0, mount0, entries0, g) ==
  IF f.encrypted
    THEN [threw |-> TRUE, err |-> "Index is encrypted, decryption not supported",
          mount |-> mount0, entries |-> entries0, st |-> SeekAbs(st0, f.index_offset)]
    ELSE index_body(f, mount0, entries0, g,
                    read_string(SeekAbs(st0, f.index_offset), U32(0), g.allocFail))

(***************************************************************************)
(* PAK: the files the reader is run on.  A file is written from a          *)
(* description (the layout is the one read_footer, read_index and          *)
(* read_entry read back), so that what the reader decodes can be compared   *)
(* with what was written.                                                  *)
(***************************************************************************)

\* a string as the engine writes it: length with the NUL, the bytes, the NUL;
\* `wide` writes 16-bit code units and a negative length
Str(s, wide) ==
  IF wide
    THEN NegI32(Len(s) + 1) \o Flatten([i \in 1..Len(s) |-> <<s[i], 0>>]) \o <<0, 0>>
    ELSE U32(Len(s) + 1) \o s \o <<0>>

\* a 32-byte NUL-padded compression name
Name32(name) == name \o Zeros(32 - Len(name))

\* the indexes written into pre-V10 files: the mount point and the
\* (path, wide, comp, nblocks) of each entry, comp being the wire value
\* (0: no compression, k: slot k-1)
LegacyIndexes ==
  << [mount |-> <<46, 46, 47>>, entries |-> <<>>],
     [mount |-> <<46, 46, 47>>,
      entries |-> << [path |-> <<99, 47, 100>>, wide |-> FALSE, comp |-> 0, nblocks |-> 0],
                     [path |-> <<97, 47, 98, 47, 120>>, wide |-> FALSE, comp |-> 0, nblocks |-> 0],
                     [path |-> <<97, 47, 121>>, wide |-> TRUE, comp |-> 0, nblocks |-> 0] >>],
     [mount |-> <<>>,
      entries |-> << [path |-> <<47, 114, 47, 47, 115>>, wide |-> FALSE, comp |-> 2, nblocks |-> 2],
                     [path |-> <<97>>, wide |-> FALSE, comp |-> 0, nblocks |-> 0],
                     [path |-> <<97>>, wide |-> FALSE, comp |-> 6, nblocks |-> 1] >>] >>

\* the indexes written into V10+ files: the mount point, whether a path hash
\* index is declared, whether a full directory index is declared, and the
\* directories with the (name, valid) of each of their file slots
FdiIndexes ==
  << [mount |-> <<46, 46, 47>>, phi |-> FALSE, fdi |-> FALSE, dirs |-> <<>>],
     [mount |-> <<46, 46, 47>>, phi |-> TRUE, fdi |-> TRUE,
      dirs |-> << [name |-> <<47>>,
                   files |-> << [name |-> <<114, 46, 120>>, valid |-> TRUE] >>],
                  [name |-> <<97, 47, 98, 47>>,
                   files |-> << [name |-> <<99>>, valid |-> TRUE],
                                [name |-> <<100>>, valid |-> FALSE] >>],
                  [name |-> <<101>>,
                   files |-> << [name |-> <<102>>, valid |-> TRUE] >>] >>],
     [mount |-> <<>>, phi |-> FALSE, fdi |-> TRUE,
      dirs |-> << [name |-> <<>>,
                   files |-> << [name |-> <<122>>, valid |-> TRUE],
                                [name |-> <<98>>, valid |-> TRUE] >>] >>] >>

\* the descriptions of the files under test; a "short" file is a pak whose
\* footer declares an index of len bytes, fewer than the index has; a
\* "twofooter" file is a V8A pak with a second footer in front of its own
PakInputs ==
  [kind : {"pak"}, fv : V1..V11, enc : {0, 1, 2}, magicOk : BOOLEAN,
   idx : 1..Len(LegacyIndexes), len : {0}]
  \cup [kind : {"junk"}, fv : {V0}, enc : {0}, magicOk : {FALSE}, idx : {1}, len : {0, 50}]
  \cup [kind : {"missing"}, fv : {V0}, enc : {0}, magicOk : {FALSE}, idx : {1}, len : {0}]
  \cup [kind : {"short"}, fv : {V5}, enc : {0}, magicOk : {TRUE}, idx : {2}, len : {4}]
  \cup [kind : {"twofooter"}, fv : {V8A}, enc : {0}, magicOk : {TRUE}, idx : {2}, len : {0}]

\* the encryption UUID written into V7+ footers
WrittenGuid == [i \in 1..16 |-> 16 * i + 1]

\* the bytes before the index (the data region): as long as the largest footer,
\* so that every candidate's footer lies inside the file
DataLen == get_footer_size(V9)

\* one pre-V10 index entry as read_entry reads it for version fv
EntryBytes(fv, e) ==
  U64(0) \o U64(0) \o U64(0)
  \o (IF fv = V8A THEN <<e.comp>> ELSE U32(e.comp))
  \o (IF version_to_major(fv) = Initial THEN U64(0) ELSE <<>>)
  \o Zeros(20)
  \o (IF version_to_major(fv) >= CompressionEncryption /\ e.comp # 0
        THEN U32(e.nblocks) \o Zeros(16 * e.nblocks) ELSE <<>>)
  \o (IF version_to_major(fv) >= CompressionEncryption THEN <<0>> \o U32(0) ELSE <<>>)

\* the pre-V10 index
LegacyIndexBytes(fv, ix) ==
  Str(ix.mount, FALSE) \o U32(Len(ix.entries))
  \o Flatten([i \in 1..Len(ix.entries) |->
                Str(ix.entries[i].path, ix.entries[i].wide) \o EntryBytes(fv, ix.entries[i])])

\* the body of the full directory index
FdiBodyBytes(ix) ==
  U32(Len(ix.dirs))
  \o Flatten([i \in 1..Len(ix.dirs) |->
       Str(ix.dirs[i].name, FALSE) \o U32(Len(ix.dirs[i].files))
       \o Flatten([j \in 1..Len(ix.dirs[i].files) |->
            Str(ix.dirs[i].files[j].name, FALSE)
            \o (IF ix.dirs[i].files[j].valid THEN U32(1) ELSE InvalidEncodedOffset)])])

\* the V10+ primary index, its full directory index placed at fdiOffset
PathHashIndexBytes(ix, fdiOffset) ==
  Str(ix.mount, FALSE) \o U32(0) \o U64(0)
  \o (IF ix.phi THEN U32(1) \o U64(0) \o U64(0) \o Zeros(20) ELSE U32(0))
  \o (IF ix.fdi THEN U32(1) \o U64(fdiOffset) \o U64(Len(FdiBodyBytes(ix))) \o Zeros(20)
      ELSE U32(0))

\* the footer of version inp.fv
FooterBytes(inp, index_offset, index_size) ==
  (IF version_to_major(inp.fv) >= EncryptionKeyGuid THEN WrittenGuid ELSE <<>>)
  \o (IF version_to_major(inp.fv) >= IndexEncryption THEN <<inp.enc>> ELSE <<>>)
  \o (IF inp.magicOk THEN MAGIC ELSE U32(0))
  \o U32(version_to_major(inp.fv))
  \o U64(index_offset) \o U64(index_size) \o Zeros(20)
  \o (IF version_to_major(inp.fv) = FrozenIndex THEN <<0>> ELSE <<>>)
  \o (IF inp.fv >= V8A
        THEN Name32(NameZlib) \o Name32(<<>>) \o Name32(NameOodle) \o Name32(<<88>>)
        ELSE <<>>)
  \o (IF inp.fv >= V8B THEN Name32(NameLZ4) ELSE <<>>)

\* a V8A pak whose data region starts with an index of two entries, the path
\* of the second one 2^31 - 1 bytes long, and whose 32 bytes before the footer
\* are a zero UUID, encrypted = 0, the magic, version_major 8 and the low 7
\* bytes of index_offset 0: with the footer's own UUID, which begins with 0
\* here, they are a V8B footer that names the index in the data region
TwoFooterFile(inp) ==
  LET index == LegacyIndexBytes(V8A, LegacyIndexes[inp.idx])
      second == Str(<<120>>, FALSE) \o U32(2) \o Str(<<115>>, FALSE)
                \o EntryBytes(V8B, [comp |-> 0, nblocks |-> 0]) \o <<255, 255, 255, 127>>
  IN  second \o Zeros(DataLen - Len(second)) \o index
      \o Zeros(17) \o MAGIC \o U32(FNameBasedCompression) \o Zeros(7)
      \o Zeros(16) \o SubSeq(FooterBytes(inp, DataLen, Len(index)), 17, get_footer_size(V8A))

\* the file a description stands for
PakFileOf(inp) ==
  IF inp.kind \in {"junk", "missing"} THEN Zeros(inp.len)
  ELSE IF inp.kind = "twofooter" THEN TwoFooterFile(inp)
  ELSE IF version_to_major(inp.fv) >= PathHashIndex
    THEN LET ix == FdiIndexes[inp.idx]
             primary == PathHashIndexBytes(ix, 0)
             index == PathHashIndexBytes(ix, DataLen + Len(primary))
         IN  Zeros(DataLen) \o index \o FdiBodyBytes(ix)
             \o FooterBytes(inp, DataLen, Len(index))
    ELSE LET index == LegacyIndexBytes(inp.fv, LegacyIndexes[inp.idx])
         IN  Zeros(DataLen) \o index
             \o FooterBytes(inp, DataLen, IF inp.kind = "short" THEN inp.len ELSE Len(index))

(***************************************************************************)
(* PAK: the constructor PakReader::Impl::Impl as a state machine           *)
(***************************************************************************)

\* Footer footer_ before the first read_footer.  Its scalar members are
\* indeterminate; every one of them is assigned by read_footer before the
\* constructor reads it, so one representative stands for all values.
InitialFooter ==
  [encryption_uuid |-> <<>>, encrypted |-> FALSE, magic |-> U32(0), version |-> V0,
   version_major |-> Unknown, index_offset |-> U64(0), index_size |-> U64(0),
   frozen |-> FALSE, compression |-> <<>>]

\* stream_.clear(); stream_.seekg(0);
ResetStream == [pos |-> 0, fail |-> FALSE]

InitPak ==
  /\ pakInput \in PakInputs
  /\ pakFile = PakFileOf(pakInput)
  /\ pak_pc = "open"
  /\ v = V0
  /\ stream_ = [pos |-> 0, fail |-> FALSE]
  /\ footer_ = InitialFooter
  /\ mount_point_ = <<>>
  /\ entries_ = <<>>
  /\ attempts = <<>>
  /\ refusedAt = V0
  /\ thrown = ""
  /\ reader = FALSE
  /\ stream_is_open = FALSE
  /\ UtocConstructed(Zeros(144))
  /\ NoRecord

\* a probe that starts one version too low
ProbeFromV10 == V10

\* a probe that goes on to V0
ProbeDownToV0 == V0

\* the first candidate of the probe loop
FirstCandidate == V11

\* the last candidate of the probe loop
LastCandidate == V1

\* Impl(path): the stream is opened; a file that cannot be opened throws
OpenStream ==
  /\ pak_pc = "open"
  /\ stream_is_open' = (pakInput.kind # "missing")
  /\ IF pakInput.kind = "missing"
       THEN /\ pak_pc' = "failed"
            /\ thrown' = "Failed to open file"
            /\ v' = v
       ELSE /\ pak_pc' = "footer"
            /\ thrown' = thrown
            /\ v' = FirstCandidate
  /\ UNCHANGED <<pakInput, pakFile, stream_, footer_, mount_point_, entries_,
                 attempts, refusedAt, reader, utocVars, recordVars>>

\* one iteration of the loop, up to read_footer(version): on an exception the
\* catch block resets the stream and the loop goes on with the next version
ReadFooter ==
  /\ pak_pc = "footer"
  /\ v >= LastCandidate
  /\ \E g \in GarbageFooter :
       LET r == read_footer(v, footer_, stream_, g)
       IN  /\ footer_' = r.footer
           /\ IF r.threw
                THEN /\ stream_' = ResetStream
                     /\ v' = v - 1
                     /\ pak_pc' = "footer"
                ELSE /\ stream_' = r.st
                     /\ v' = v
                     /\ pak_pc' = "index"
  /\ attempts' = Append(attempts, v)
  /\ UNCHANGED <<pakInput, pakFile, mount_point_, entries_, refusedAt, thrown, reader,
                 stream_is_open, utocVars, recordVars>>

\* the rest of the iteration, read_index(): success returns from the
\* constructor, an exception is caught like one of read_footer
ReadIndex ==
  /\ pak_pc = "index"
  /\ \E g \in GarbageIndex :
       LET r == read_index(footer_, stream_, mount_point_, entries_, g)
       IN  /\ mount_point_' = r.mount
           /\ entries_' = r.entries
           /\ IF r.threw
                THEN /\ stream_' = ResetStream
                     /\ v' = v - 1
                     /\ pak_pc' = "footer"
                     /\ reader' = reader
                     /\ refusedAt' =
                          IF r.err = "Index is encrypted, decryption not supported"
                            THEN v ELSE refusedAt
                ELSE /\ stream_' = r.st
                     /\ v' = v
                     /\ pak_pc' = "done"
                     /\ reader' = TRUE
                     /\ refusedAt' = refusedAt
  /\ UNCHANGED <<pakInput, pakFile, footer_, attempts, thrown, stream_is_open, utocVars,
                 recordVars>>

\* the loop is over without a return: throw PakException("Failed to read pak
\* file"); the exception leaves the constructor, so the members built so far
\* are destroyed and ~ifstream closes the file
GiveUp ==
  /\ pak_pc = "footer"
  /\ v < LastCandidate
  /\ pak_pc' = "failed"
  /\ thrown' = "Failed to read pak file"
  /\ stream_is_open' = FALSE
  /\ UNCHANGED <<pakInput, pakFile, v, stream_, footer_, mount_point_, entries_,
                 attempts, refusedAt, reader, utocVars, recordVars>>

NextPak == OpenStream \/ ReadFooter \/ ReadIndex \/ GiveUp

\* PakReader construction on every file under test
SpecPak == InitPak /\ [][NextPak]_vars

(***************************************************************************)
(* PAK: the queries                                                        *)
(***************************************************************************)

\* PakReader::version()
version == footer_.version

\* PakReader::encrypted_index()
encrypted_index == footer_.encrypted

\* a reader that never reports a UUID
NoGuidReported == <<>>

\* PakReader::encryption_guid()
encryption_guid == footer_.encryption_uuid

\* the keys of the map in descending order
FilesDescending ==
  [i \in 1..Cardinality(DOMAIN entries_) |->
     SortedSeq(DOMAIN entries_)[Cardinality(DOMAIN entries_) + 1 - i]]

\* PakReader::files(): the keys of the std::map in its iteration order
files == SortedSeq(DOMAIN entries_)

\* a get_directory that cuts at the first '/' (find_first_of)
DirectoryBeforeFirstSlash(path) ==
  IF \E i \in 1..Len(path) : path[i] = Slash
    THEN SubSeq(path, 1, (CHOOSE i \in 1..Len(path) :
                            path[i] = Slash /\ \A j \in 1..(i - 1) : path[j] # Slash) - 1)
    ELSE <<>>

\* get_directory(path): path.substr(0, path.find_last_of('/')), "" without a '/'
get_directory(path) ==
  IF \E i \in 1..Len(path) : path[i] = Slash
    THEN SubSeq(path, 1, (CHOOSE i \in 1..Len(path) :
                            path[i] = Slash /\ \A j \in (i + 1)..Len(path) : path[j] # Slash) - 1)
    ELSE <<>>

\* the strings the while loop of directories() inserts, starting from dir
RECURSIVE dir_chain(_)
dir_chain(dir) == IF dir = <<>> THEN {} ELSE {dir} \cup dir_chain(get_directory(dir))

\* PakReader::directories()
directories == SortedSeq(UNION {dir_chain(get_directory(path)) : path \in DOMAIN entries_})

(***************************************************************************)
(* UTOC: header, flags, raw memory                                         *)
(***************************************************************************)

\* EIoStoreTocVersion
PerfectHash == 4
PerfectHashWithOverflow == 5
ReplaceIoChunkHashWithIoHash == 8

\* EIoContainerFlags
Compressed == 1
Encrypted == 2
Signed == 4
Indexed == 8

\* FIoStoreTocHeader::MAGIC, "-==--==--==--==-"
TOC_MAGIC == <<45, 61, 61, 45, 45, 61, 61, 45, 45, 61, 61, 45, 45, 61, 61, 45>>

\* sizeof(FIoStoreTocHeader)
HeaderSize == 144

\* the fields of the header, by their place in the struct
toc_magic(h) == SubSeq(h, 1, 16)
toc_version(h) == h[17]
toc_header_size(h) == Val32(SubSeq(h, 21, 24))
toc_entry_count(h) == Val32(SubSeq(h, 25, 28))
toc_compressed_block_entry_count(h) == Val32(SubSeq(h, 29, 32))
compression_method_name_count(h) == Val32(SubSeq(h, 37, 40))
compression_method_name_length(h) == Val32(SubSeq(h, 41, 44))
directory_index_size(h) == Val32(SubSeq(h, 49, 52))
container_flags(h) == h[81]
toc_chunk_perfect_hash_seeds_count(h) == Val32(SubSeq(h, 85, 88))
toc_chunks_without_perfect_hash_count(h) == Val32(SubSeq(h, 97, 100))

\* (container_flags & flag) != EIoContainerFlags::None, flag a single bit
HasFlag(h, flag) == (container_flags(h) \div flag) % 2 = 1

\* a header whose Encrypted flag is never seen
NeverEncrypted(h) == FALSE

\* FIoStoreTocHeader::IsValid()
IsValid(h) == toc_magic(h) = TOC_MAGIC

\* FIoStoreTocHeader::IsEncrypted()
IsEncrypted(h) == HasFlag(h, Encrypted)

\* FIoStoreTocHeader::IsSigned()
IsSigned(h) == HasFlag(h, Signed)

\* FIoStoreTocHeader::IsIndexed()
IsIndexed(h) == HasFlag(h, Indexed)

\* std::memcpy(dst, data + off, n): the n bytes at off; a byte outside the
\* buffer is whatever lies behind it (gb)
MemBytes(data, off, n, gb) ==
  [i \in 1..n |-> IF off + i <= Len(data) THEN data[off + i] ELSE gb]

\* the copy reads outside the buffer
Outside(data, off, n) == n > 0 /\ off + n > Len(data)

\* count elements of size bytes each, copied from off
Elements(data, off, count, size, gb) ==
  [i \in 1..count |-> MemBytes(data, off + (i - 1) * size, size, gb)]

(***************************************************************************)
(* UTOC: ReadString, ReadOptional, ParseDirectoryIndex                     *)
(***************************************************************************)

\* UINT32_MAX as it lies in the file
NoneValue == <<255, 255, 255, 255>>

\* ReadOptional: std::nullopt (<<>>) for UINT32_MAX, else the value (<<n>>)
ReadOptional(data, off, gb) ==
  IF MemBytes(data, off, 4, gb) = NoneValue THEN <<>>
  ELSE <<Val32(MemBytes(data, off, 4, gb))>>

\* ReadString's "Convert UTF-16 to UTF-8 (simplified)" of one code unit
utf8_of(c) ==
  IF c < 128 THEN <<c>>
  ELSE IF c < 2048 THEN <<192 + (c \div 64), 128 + (c % 64)>>
  ELSE <<224 + (c \div 4096), 128 + ((c \div 64) % 64), 128 + (c % 64)>>

\* ReadString's UTF-16 branch for `length` code units at off; units holds them
\* and k of them come before the first NUL.  The loop has consumed the NUL when
\* it breaks, and the skip that follows adds the units that were not pushed.
wide_string(data, off, length, units, k, ub) ==
  [s |-> Flatten([i \in 1..k |-> utf8_of(units[i])]),
   off |-> IF k < length THEN off + 2 * (k + 1) + 2 * (length - k) ELSE off + 2 * length,
   ub |-> ub \/ Outside(data, off, 2 * (IF k < length THEN k + 1 ELSE length)),
   threw |-> FALSE]

\* ReadString after its length was read; a length of Huge or more makes the
\* allocation of the string throw
string_after_length(data, off, length, ub, gb) ==
  IF length = 0 THEN [s |-> <<>>, off |-> off, ub |-> ub, threw |-> FALSE]
  ELSE IF length >= Huge \/ 0 - length >= Huge
    THEN [s |-> <<>>, off |-> off, ub |-> ub, threw |-> TRUE]
  ELSE IF length < 0
    THEN wide_string(data, off, 0 - length,
                     code_units(MemBytes(data, off, 2 * (0 - length), gb)),
                     Len(UpToNul(code_units(MemBytes(data, off, 2 * (0 - length), gb)))),
                     ub)
  ELSE [s |-> UpToNul(MemBytes(data, off, length, gb)), off |-> off + length,
        ub |-> ub \/ Outside(data, off, length), threw |-> FALSE]

\* UtocReader::ReadString(data, offset): [s, off, ub, threw]
ReadString(data, off, gb) ==
  string_after_length(data, off + 4, ValI32(MemBytes(data, off, 4, gb)),
                      Outside(data, off, 4), gb)

\* one FIoDirectoryIndexEntry as the first loop of ParseDirectoryIndex reads it
directory_entry_at(data, off, gb) ==
  [name |-> ReadOptional(data, off, gb),
   first_child_entry |-> ReadOptional(data, off + 4, gb),
   next_sibling_entry |-> ReadOptional(data, off + 8, gb),
   first_file_entry |-> ReadOptional(data, off + 12, gb)]

\* one FIoFileIndexEntry as the second loop of ParseDirectoryIndex reads it
file_entry_at(data, off, gb) ==
  [name |-> Val32(MemBytes(data, off, 4, gb)),
   next_file_entry |-> ReadOptional(data, off + 4, gb),
   user_data |-> Val32(MemBytes(data, off + 8, 4, gb))]

\* the string-table loop from string i on, acc the strings read so far:
\* [strings, off, ub, threw].  The table was resized to n before the loop, so
\* the strings a throw leaves unread are empty.
RECURSIVE read_strings(_, _, _, _, _, _, _)

\* the iteration after its string was read
strings_step(data, i, n, acc, ub, gb, rs) ==
  IF rs.threw
    THEN [strings |-> acc \o [j \in 1..(n - i) |-> <<>>], off |-> rs.off,
          ub |-> ub \/ rs.ub, threw |-> TRUE]
    ELSE read_strings(data, rs.off, i + 1, n, Append(acc, rs.s), ub \/ rs.ub, gb)

read_strings(data, off, i, n, acc, ub, gb) ==
  IF i >= n THEN [strings |-> acc, off |-> off, ub |-> ub, threw |-> FALSE]
  ELSE strings_step(data, i, n, acc, ub, gb, ReadString(data, off, gb))

\* ParseDirectoryIndex, "Read string table", after the loop
parse_strings_done(p, rs) ==
  [p EXCEPT !.dir.string_table = rs.strings, !.off = rs.off, !.ub = rs.ub,
            !.threw = rs.threw]

\* ParseDirectoryIndex, "Read string table", n the stringCount read at p.off
parse_strings(p, data, gb, n) ==
  IF n >= Huge THEN [p EXCEPT !.threw = TRUE, !.ub = @ \/ Outside(data, p.off, 4)]
  ELSE parse_strings_done(p, read_strings(data, p.off + 4, 0, n, <<>>,
                                          p.ub \/ Outside(data, p.off, 4), gb))

\* ParseDirectoryIndex, "Read file entries", n the fileEntryCount read at p.off
parse_files(p, data, gb, n) ==
  IF n >= Huge THEN [p EXCEPT !.threw = TRUE, !.ub = @ \/ Outside(data, p.off, 4)]
  ELSE parse_strings(
         [p EXCEPT !.dir.file_entries =
                     [i \in 1..n |-> file_entry_at(data, p.off + 4 + 12 * (i - 1), gb)],
                   !.fmap = @ \cup {file_entry_at(data, p.off + 4 + 12 * (i - 1), gb).user_data :
                                      i \in 1..n},
                   !.off = @ + 4 + 12 * n,
                   !.ub = @ \/ Outside(data, p.off, 4 + 12 * n)],
         data, gb, Val32(MemBytes(data, p.off + 4 + 12 * n, 4, gb)))

\* ParseDirectoryIndex, "Read directory entries", n the directoryEntryCount
\* read at p.off
parse_directories(p, data, gb, n) ==
  IF n >= Huge THEN [p EXCEPT !.threw = TRUE, !.ub = @ \/ Outside(data, p.off, 4)]
  ELSE parse_files(
         [p EXCEPT !.dir.directory_entries =
                     [i \in 1..n |-> directory_entry_at(data, p.off + 4 + 16 * (i - 1), gb)],
                   !.off = @ + 4 + 16 * n,
                   !.ub = @ \/ Outside(data, p.off, 4 + 16 * n)],
         data, gb, Val32(MemBytes(data, p.off + 4 + 16 * n, 4, gb)))

\* ParseDirectoryIndex after the mount point was read
parse_after_mount(dir0, fmap0, data, gb, rs) ==
  IF rs.threw
    THEN [dir |-> dir0, fmap |-> fmap0, off |-> rs.off, ub |-> rs.ub, threw |-> TRUE]
    ELSE parse_directories(
           [dir |-> [dir0 EXCEPT !.mount_point = rs.s], fmap |-> fmap0,
            off |-> rs.off, ub |-> rs.ub, threw |-> FALSE],
           data, gb, Val32(MemBytes(data, rs.off, 4, gb)))

\* UtocReader::ParseDirectoryIndex(data) on directory_index_ = dir0 and
\* file_map_ = fmap0: [dir, fmap, off, ub, threw]; it returns true unless it throws
ParseDirectoryIndex(dir0, fmap0, data, gb) ==
  parse_after_mount(dir0, fmap0, data, gb, ReadString(data, 0, gb))

(***************************************************************************)
(* UTOC: UtocReader::Open.  It works on a record r of the members it       *)
(* writes, its local offset, how it has ended (ret: "" while it runs) and  *)
(* the history of the call; each operator is one stretch of the function.  *)
(***************************************************************************)

\* "Parse the header": memcpy into header_, then IsValid
open_header(r, data, gb) ==
  [r EXCEPT !.header_ = MemBytes(data, 0, HeaderSize, gb),
            !.offset = HeaderSize,
            !.ub = Outside(data, 0, HeaderSize),
            !.sections = <<"header_">>,
            !.ret = IF IsValid(MemBytes(data, 0, HeaderSize, gb)) THEN "" ELSE "false"]

\* member.resize(count); memcpy(member.data(), data + offset, count * size);
\* offset += count * size.  A resize to Huge or more elements throws.
read_array(r, data, gb, member, count, size) ==
  IF r.ret # "" THEN r
  ELSE IF count >= Huge THEN [r EXCEPT !.ret = "threw"]
  ELSE [r EXCEPT ![member] = Elements(data, r.offset, count, size, gb),
                 !.offset = @ + count * size,
                 !.ub = @ \/ Outside(data, r.offset, count * size),
                 !.sections = Append(@, member)]

\* "Read chunk IDs"
open_chunk_ids(r, data, gb) ==
  read_array(r, data, gb, "chunk_ids_", toc_entry_count(r.header_), 12)

\* "Read chunk offsets and lengths"
open_chunk_offset_lengths(r, data, gb) ==
  read_array(r, data, gb, "chunk_offset_lengths_", toc_entry_count(r.header_), 10)

\* "Read hash map", the seeds (PerfectHash and later)
open_perfect_hash_seeds(r, data, gb) ==
  IF r.ret = "" /\ toc_version(r.header_) >= PerfectHash
    THEN read_array(r, data, gb, "chunk_perfect_hash_seeds_",
                    toc_chunk_perfect_hash_seeds_count(r.header_), 4)
    ELSE r

\* "Read hash map", the chunks without perfect hash (PerfectHashWithOverflow and later)
open_without_perfect_hash(r, data, gb) ==
  IF r.ret = "" /\ toc_version(r.header_) >= PerfectHashWithOverflow
    THEN read_array(r, data, gb, "chunk_indices_without_perfect_hash_",
                    toc_chunks_without_perfect_hash_count(r.header_), 4)
    ELSE r

\* a block vector sized by toc_entry_count
BlocksSizedByEntryCount(r, data, gb) ==
  read_array(r, data, gb, "compression_blocks_", toc_entry_count(r.header_), 12)

\* "Read compression blocks"
open_compression_blocks(r, data, gb) ==
  read_array(r, data, gb, "compression_blocks_",
             toc_compressed_block_entry_count(r.header_), 12)

\* one compression method: `length` bytes copied into char methodName[32] = {0},
\* read back as a C string
method_name(data, off, length, gb) ==
  UpToNul(MemBytes(data, off, IF length <= 32 THEN length ELSE 32, gb))

\* the copy overruns methodName, or methodName holds no NUL
method_overrun(data, off, length, gb) ==
  length > 32 \/ (length = 32 /\ Len(method_name(data, off, length, gb)) = 32)

\* "Read compression methods", count names of `length` bytes; a copy of Huge
\* bytes into methodName does not return
read_methods(r, data, gb, count, length) ==
  IF count >= Huge \/ (count > 0 /\ length >= Huge) THEN [r EXCEPT !.ret = "threw"]
  ELSE [r EXCEPT !.compression_methods_ =
                   [i \in 1..count |-> method_name(data, r.offset + (i - 1) * length, length, gb)],
                 !.offset = @ + count * length,
                 !.ub = @ \/ Outside(data, r.offset, count * length)
                          \/ \E i \in 1..count :
                               method_overrun(data, r.offset + (i - 1) * length, length, gb),
                 !.sections = Append(@, "compression_methods_")]

open_compression_methods(r, data, gb) ==
  IF r.ret # "" THEN r
  ELSE read_methods(r, data, gb, compression_method_name_count(r.header_),
                    compression_method_name_length(r.header_))

\* if (header_.IsEncrypted()) return false;
open_encrypted(r) ==
  IF r.ret = "" /\ IsEncrypted(r.header_) THEN [r EXCEPT !.ret = "false"] ELSE r

\* a skip that leaves out the 4 bytes of the size field
SkipWithoutSizeField(r, data, signatureSize) ==
  [r EXCEPT !.offset = @ + 4 + signatureSize * 2
                         + toc_compressed_block_entry_count(r.header_) * 20,
            !.ub = @ \/ Outside(data, r.offset, 4),
            !.sections = Append(@, "signatures")]

\* the signature section, signatureSize read at r.offset
skip_signatures(r, data, signatureSize) ==
  [r EXCEPT !.offset = @ + 4 + (signatureSize * 2 + 4)
                         + toc_compressed_block_entry_count(r.header_) * 20,
            !.ub = @ \/ Outside(data, r.offset, 4),
            !.sections = Append(@, "signatures")]

\* if (header_.IsSigned()) { ... }
open_signatures(r, data, gb) ==
  IF r.ret = "" /\ IsSigned(r.header_)
    THEN skip_signatures(r, data, Val32(MemBytes(data, r.offset, 4, gb)))
    ELSE r

\* the directory index after ParseDirectoryIndex(directoryData), which parsed
\* to p; size is directory_index_size
directory_parsed(r, data, size, p) ==
  [r EXCEPT !.directory_index_ = p.dir,
            !.file_map_ = p.fmap,
            !.offset = @ + size,
            !.ub = @ \/ Outside(data, r.offset, size) \/ p.ub,
            !.sections = Append(@, "directory_index_"),
            !.ret = IF p.threw THEN "threw" ELSE ""]

\* "Read directory index"
open_directory_index(r, data, gb) ==
  IF r.ret = "" /\ IsIndexed(r.header_) /\ directory_index_size(r.header_) > 0
    THEN IF directory_index_size(r.header_) >= Huge THEN [r EXCEPT !.ret = "threw"]
         ELSE directory_parsed(r, data, directory_index_size(r.header_),
                ParseDirectoryIndex(r.directory_index_, r.file_map_,
                  MemBytes(data, r.offset, directory_index_size(r.header_), gb), gb))
    ELSE r

\* chunk_metas_[i] read at off.  From ReplaceIoChunkHashWithIoHash on only 20
\* bytes of chunk_hash are written: the other 12 are what the element held
\* (zeros for an element resize() has just made).
chunk_meta_at(r, data, off, i, gb) ==
  IF toc_version(r.header_) >= ReplaceIoChunkHashWithIoHash
    THEN [chunk_hash |-> MemBytes(data, off, 20, gb)
                         \o (IF i <= Len(r.chunk_metas_)
                               THEN SubSeq(r.chunk_metas_[i].chunk_hash, 21, 32)
                               ELSE Zeros(12)),
          flags |-> MemBytes(data, off + 20, 1, gb)[1]]
    ELSE [chunk_hash |-> MemBytes(data, off, 32, gb),
          flags |-> MemBytes(data, off + 32, 1, gb)[1]]

\* what the loop adds to offset per chunk meta: the hash, the flags byte that
\* ReadValue steps over, and the 4 (or 1) added after it
meta_stride(r) ==
  IF toc_version(r.header_) >= ReplaceIoChunkHashWithIoHash THEN 20 + 1 + 4 ELSE 32 + 1 + 1

\* "Read chunk metadata", count entries; return true
read_metas(r, data, gb, count) ==
  IF count >= Huge THEN [r EXCEPT !.ret = "threw"]
  ELSE [r EXCEPT !.chunk_metas_ =
                   [i \in 1..count |->
                      chunk_meta_at(r, data, r.offset + (i - 1) * meta_stride(r), i, gb)],
                 !.offset = @ + count * meta_stride(r),
                 !.ub = @ \/ (count > 0 /\ Outside(data, r.offset,
                                 (count - 1) * meta_stride(r) + meta_stride(r) - 1
                                 - (IF toc_version(r.header_) >= ReplaceIoChunkHashWithIoHash
                                      THEN 3 ELSE 0))),
                 !.sections = Append(@, "chunk_metas_"),
                 !.ret = "true"]

open_chunk_metas(r, data, gb) ==
  IF r.ret # "" THEN r ELSE read_metas(r, data, gb, toc_entry_count(r.header_))

\* UtocReader::Open on a file that could be opened, its bytes in data
Open(r, data, gb) ==
  open_chunk_metas(
    open_directory_index(
      open_signatures(
        open_encrypted(
          open_compression_methods(
            open_compression_blocks(
              open_without_perfect_hash(
                open_perfect_hash_seeds(
                  open_chunk_offset_lengths(
                    open_chunk_ids(open_header(r, data, gb), data, gb),
                    data, gb),
                  data, gb),
                data, gb),
              data, gb),
            data, gb)),
        data, gb),
      data, gb),
    data, gb)

(***************************************************************************)
(* UTOC: FIoDirectoryIndexResource::GetAllFilePaths                        *)
(***************************************************************************)

\* the steps a traversal may take before it counts as one that does not end
MaxSteps == 16

\* fullPath += '/' unless fullPath is empty or ends in '/'; fullPath += segment
add_segment(fullPath, segment) ==
  (IF fullPath # <<>> /\ fullPath[Len(fullPath)] # Slash
     THEN fullPath \o <<Slash>> ELSE fullPath) \o segment

\* "Construct full path": the loop over the segments of path
RECURSIVE construct_full_path(_, _)
construct_full_path(fullPath, path) ==
  IF path = <<>> THEN fullPath
  ELSE construct_full_path(add_segment(fullPath, Head(path)), Tail(path))

\* a file chain that ends after its first entry
NoNextFile(file) == <<>>

\* file.next_file_entry
next_file_of(file) == file.next_file_entry

\* The traversal works on a record a: result (the paths pushed so far),
\* emitted (history: the file entry behind each path), ub (an index outside its
\* vector was used), diverged (MaxSteps steps were not enough), fuel.
RECURSIVE traverseDirectory(_, _, _, _)
RECURSIVE walk_files(_, _, _, _)
RECURSIVE walk_children(_, _, _, _)

\* the file loop at file entry f: push the name, build the path, pop, go on
emit_file(di, f, file, path, a) ==
  IF file.name >= Len(di.string_table) THEN [a EXCEPT !.ub = TRUE]
  ELSE walk_files(di, next_file_of(file), path,
         [a EXCEPT !.result = Append(@, construct_full_path(di.mount_point,
                                          Append(path, di.string_table[file.name + 1]))),
                   !.emitted = Append(@, f),
                   !.fuel = @ - 1])

\* "Process files in this directory", from fileIndex on
walk_files(di, fileIndex, path, a) ==
  IF fileIndex = <<>> \/ a.ub \/ a.diverged THEN a
  ELSE IF a.fuel = 0 THEN [a EXCEPT !.diverged = TRUE]
  ELSE IF fileIndex[1] >= Len(di.file_entries) THEN [a EXCEPT !.ub = TRUE]
  ELSE emit_file(di, fileIndex[1], di.file_entries[fileIndex[1] + 1], path, a)

\* "Process child directories", from childIndex on
walk_children(di, childIndex, path, a) ==
  IF childIndex = <<>> \/ a.ub \/ a.diverged THEN a
  ELSE IF a.fuel = 0 THEN [a EXCEPT !.diverged = TRUE]
  ELSE IF childIndex[1] >= Len(di.directory_entries) THEN [a EXCEPT !.ub = TRUE]
  ELSE walk_children(di, di.directory_entries[childIndex[1] + 1].next_sibling_entry, path,
                     traverseDirectory(di, childIndex[1], path, [a EXCEPT !.fuel = @ - 1]))

\* the directory after its name was pushed: its files, then its children
directory_body(di, dir, path, a) ==
  walk_children(di, dir.first_child_entry, path,
                walk_files(di, dir.first_file_entry, path, a))

\* "Add directory name to path if it has one"
enter_directory(di, dir, path, a) ==
  IF dir.name = <<>> THEN directory_body(di, dir, path, a)
  ELSE IF dir.name[1] >= Len(di.string_table) THEN [a EXCEPT !.ub = TRUE]
  ELSE directory_body(di, dir, Append(path, di.string_table[dir.name[1] + 1]), a)

\* the lambda traverseDirectory(dirIndex, path)
traverseDirectory(di, dirIndex, path, a) ==
  IF a.ub \/ a.diverged THEN a
  ELSE IF dirIndex >= Len(di.directory_entries) THEN [a EXCEPT !.ub = TRUE]
  ELSE enter_directory(di, di.directory_entries[dirIndex + 1], path, a)

\* FIoDirectoryIndexResource::GetAllFilePaths() on di: [result, emitted, ub, diverged, fuel]
GetAllFilePaths(di) ==
  IF di.directory_entries = <<>>
    THEN [result |-> <<>>, emitted |-> <<>>, ub |-> FALSE, diverged |-> FALSE, fuel |-> MaxSteps]
    ELSE traverseDirectory(di, 0, <<>>,
           [result |-> <<>>, emitted |-> <<>>, ub |-> FALSE, diverged |-> FALSE,
            fuel |-> MaxSteps])

(***************************************************************************)
(* UTOC: the files Open is run on, written from descriptions               *)
(***************************************************************************)

\* an optional index as it lies in the file
OptBytes(o) == IF o = <<>> THEN NoneValue ELSE U32(o[1])

\* a directory index; wide holds the places of the string table written as UTF-16
DirIndexBytes(d) ==
  Str(d.mount_point, FALSE)
  \o U32(Len(d.directory_entries))
  \o Flatten([i \in 1..Len(d.directory_entries) |->
       OptBytes(d.directory_entries[i].name)
       \o OptBytes(d.directory_entries[i].first_child_entry)
       \o OptBytes(d.directory_entries[i].next_sibling_entry)
       \o OptBytes(d.directory_entries[i].first_file_entry)])
  \o U32(Len(d.file_entries))
  \o Flatten([i \in 1..Len(d.file_entries) |->
       U32(d.file_entries[i].name) \o OptBytes(d.file_entries[i].next_file_entry)
       \o U32(d.file_entries[i].user_data)])
  \o U32(Len(d.string_table))
  \o Flatten([i \in 1..Len(d.string_table) |-> Str(d.string_table[i], i \in d.wide)])

\* "../../../" with the directory sub holding file1 and file2
SubDirIndex ==
  [mount_point |-> <<46, 46, 47, 46, 46, 47, 46, 46, 47>>,
   directory_entries |->
     << [name |-> <<>>, first_child_entry |-> <<1>>, next_sibling_entry |-> <<>>,
         first_file_entry |-> <<>>],
        [name |-> <<0>>, first_child_entry |-> <<>>, next_sibling_entry |-> <<>>,
         first_file_entry |-> <<0>>] >>,
   file_entries |->
     << [name |-> 1, next_file_entry |-> <<1>>, user_data |-> 0],
        [name |-> 2, next_file_entry |-> <<>>, user_data |-> 1] >>,
   string_table |-> << <<115, 117, 98>>, <<102, 105, 108, 101, 49>>,
                       <<102, 105, 108, 101, 50>> >>,
   wide |-> {3}]

\* a root directory whose one file "f" names a next file that does not exist
OutOfRangeDirIndex ==
  [mount_point |-> <<109, 47>>,
   directory_entries |->
     << [name |-> <<>>, first_child_entry |-> <<>>, next_sibling_entry |-> <<>>,
         first_file_entry |-> <<0>>] >>,
   file_entries |-> << [name |-> 0, next_file_entry |-> <<7>>, user_data |-> 0] >>,
   string_table |-> << <<102>> >>,
   wide |-> {}]

\* a root directory whose files "f" and "g" name each other as next file
CyclicDirIndex ==
  [mount_point |-> <<109, 47>>,
   directory_entries |->
     << [name |-> <<>>, first_child_entry |-> <<>>, next_sibling_entry |-> <<>>,
         first_file_entry |-> <<0>>] >>,
   file_entries |->
     << [name |-> 0, next_file_entry |-> <<1>>, user_data |-> 0],
        [name |-> 1, next_file_entry |-> <<0>>, user_data |-> 1] >>,
   string_table |-> << <<102>>, <<103>> >>,
   wide |-> {}]

\* the contents written into files: the number of chunks, of compression
\* blocks, of perfect-hash seeds, of chunks without perfect hash, the
\* compression methods, the signature size, whether there is a directory
\* index, and the directory index
UtocShapes ==
  << [entries |-> 0, blocks |-> 0, seeds |-> 0, without |-> 0, methods |-> <<>>,
      signatureSize |-> 0, indexed |-> FALSE, dir |-> SubDirIndex],
     [entries |-> 2, blocks |-> 1, seeds |-> 1, without |-> 1,
      methods |-> <<NameZlib, NameOodle>>, signatureSize |-> 2, indexed |-> TRUE,
      dir |-> SubDirIndex],
     [entries |-> 1, blocks |-> 0, seeds |-> 0, without |-> 0, methods |-> <<>>,
      signatureSize |-> 0, indexed |-> TRUE, dir |-> OutOfRangeDirIndex],
     [entries |-> 2, blocks |-> 0, seeds |-> 0, without |-> 0, methods |-> <<>>,
      signatureSize |-> 0, indexed |-> TRUE, dir |-> CyclicDirIndex] >>

\* the descriptions of the files under test: complete files of every layout,
\* files whose declared header size is 0, files with a wrong magic, files cut
\* after 200 bytes, files whose version byte is Invalid (0) or beyond the enum
\* (9), files whose directory index has an index out of range or a cycle, a
\* file of 20 zero bytes, a file that cannot be opened
UtocInputs ==
  [kind : {"utoc"}, magicOk : {TRUE}, version : {3, PerfectHash, PerfectHashWithOverflow,
                                                 ReplaceIoChunkHashWithIoHash},
   flags : {0, Encrypted, Indexed, Signed + Indexed, Compressed + Encrypted + Signed + Indexed},
   hsize : {HeaderSize}, shape : {1, 2}, keep : {0}]
  \cup [kind : {"utoc"}, magicOk : {TRUE}, version : {PerfectHashWithOverflow},
        flags : {Indexed}, hsize : {HeaderSize}, shape : {3, 4}, keep : {0}]
  \cup [kind : {"utoc"}, magicOk : {TRUE}, version : {ReplaceIoChunkHashWithIoHash},
        flags : {0, Indexed}, hsize : {0}, shape : {2}, keep : {0}]
  \cup [kind : {"utoc"}, magicOk : {FALSE}, version : {ReplaceIoChunkHashWithIoHash},
        flags : {0, Encrypted}, hsize : {HeaderSize}, shape : {2}, keep : {0}]
  \cup [kind : {"utoc"}, magicOk : {TRUE}, version : {PerfectHashWithOverflow},
        flags : {Encrypted, Indexed, Encrypted + Signed + Indexed},
        hsize : {HeaderSize}, shape : {2}, keep : {200}]
  \cup [kind : {"utoc"}, magicOk : {TRUE}, version : {0, 9}, flags : {0, Indexed},
        hsize : {HeaderSize}, shape : {2}, keep : {0}]
  \cup [kind : {"junk", "missing"}, magicOk : {FALSE}, version : {0}, flags : {0},
        hsize : {0}, shape : {1}, keep : {20}]

\* what a byte behind a buffer may hold
GarbageBytes == {0, 255}

\* the directory index section of a file
UtocDirBytes(inp) ==
  IF UtocShapes[inp.shape].indexed THEN DirIndexBytes(UtocShapes[inp.shape].dir) ELSE <<>>

\* the 144-byte header
UtocHeaderBytes(inp) ==
  (IF inp.magicOk THEN TOC_MAGIC ELSE Zeros(16))
  \o <<inp.version, 0, 0, 0>>
  \o U32(inp.hsize)
  \o U32(UtocShapes[inp.shape].entries)
  \o U32(UtocShapes[inp.shape].blocks)
  \o U32(12)
  \o U32(Len(UtocShapes[inp.shape].methods))
  \o U32(32)
  \o U32(65536)
  \o U32(Len(UtocDirBytes(inp)))
  \o U32(1)
  \o U64(7)
  \o Zeros(16)
  \o <<inp.flags, 0, 0, 0>>
  \o U32(UtocShapes[inp.shape].seeds)
  \o U64(0)
  \o U32(UtocShapes[inp.shape].without)
  \o U32(0)
  \o Zeros(40)

\* n bytes of content that tells the sections and the files apart
Content(tag, n) == [i \in 1..n |-> 1 + ((tag + i) % 250)]

\* the sections up to the compression methods
UtocFrontBytes(inp) ==
  Content(inp.version, 12 * UtocShapes[inp.shape].entries)
  \o Content(inp.flags, 10 * UtocShapes[inp.shape].entries)
  \o (IF inp.version >= PerfectHash THEN Content(3, 4 * UtocShapes[inp.shape].seeds) ELSE <<>>)
  \o (IF inp.version >= PerfectHashWithOverflow
        THEN Content(4, 4 * UtocShapes[inp.shape].without) ELSE <<>>)
  \o Content(5, 12 * UtocShapes[inp.shape].blocks)
  \o Flatten([i \in 1..Len(UtocShapes[inp.shape].methods) |->
                Name32(UtocShapes[inp.shape].methods[i])])

\* the signature section as Open steps over it
UtocSignatureBytes(inp) ==
  IF (inp.flags \div Signed) % 2 = 1
    THEN U32(UtocShapes[inp.shape].signatureSize)
         \o Content(6, 2 * UtocShapes[inp.shape].signatureSize + 4)
         \o Content(7, 20 * UtocShapes[inp.shape].blocks)
    ELSE <<>>

\* the chunk metas
UtocMetaBytes(inp) ==
  Content(8, UtocShapes[inp.shape].entries
             * (IF inp.version >= ReplaceIoChunkHashWithIoHash THEN 25 ELSE 34))

\* the whole file
UtocWhole(inp) ==
  UtocHeaderBytes(inp) \o UtocFrontBytes(inp) \o UtocSignatureBytes(inp)
  \o (IF (inp.flags \div Indexed) % 2 = 1 THEN UtocDirBytes(inp) ELSE <<>>)
  \o UtocMetaBytes(inp)

\* the file a description stands for
UtocFileOf(inp) ==
  IF inp.kind = "missing" THEN <<>>
  ELSE IF inp.kind = "junk" THEN Zeros(inp.keep)
  ELSE IF inp.keep = 0 THEN UtocWhole(inp)
  ELSE SubSeq(UtocWhole(inp), 1, inp.keep)

(***************************************************************************)
(* UTOC: a reader and the calls made on it                                 *)
(***************************************************************************)

\* the Open calls made on one reader
MaxOpens == 2

\* what header_ may hold before the first Open
IndeterminateHeaders == {Zeros(HeaderSize), [i \in 1..HeaderSize |-> 255]}

InitUtoc ==
  /\ PakAbsent
  /\ NoRecord
  /\ \E h \in IndeterminateHeaders : UtocConstructed(h)

\* the reader as Open finds it
ReaderNow ==
  [header_ |-> header_, chunk_ids_ |-> chunk_ids_,
   chunk_offset_lengths_ |-> chunk_offset_lengths_,
   chunk_perfect_hash_seeds_ |-> chunk_perfect_hash_seeds_,
   chunk_indices_without_perfect_hash_ |-> chunk_indices_without_perfect_hash_,
   compression_blocks_ |-> compression_blocks_,
   compression_methods_ |-> compression_methods_,
   chunk_metas_ |-> chunk_metas_, directory_index_ |-> directory_index_,
   file_map_ |-> file_map_,
   offset |-> 0, ret |-> "", ub |-> FALSE, sections |-> <<>>]

\* the reader and the history of the call become what Open made of them; the
\* std::ifstream file is a local of Open, so every return closes it
OpenTo(r) ==
  /\ header_' = r.header_
  /\ chunk_ids_' = r.chunk_ids_
  /\ chunk_offset_lengths_' = r.chunk_offset_lengths_
  /\ chunk_perfect_hash_seeds_' = r.chunk_perfect_hash_seeds_
  /\ chunk_indices_without_perfect_hash_' = r.chunk_indices_without_perfect_hash_
  /\ compression_blocks_' = r.compression_blocks_
  /\ compression_methods_' = r.compression_methods_
  /\ chunk_metas_' = r.chunk_metas_
  /\ directory_index_' = r.directory_index_
  /\ file_map_' = r.file_map_
  /\ opened' = r.ret
  /\ open_offset' = r.offset
  /\ sections' = r.sections
  /\ open_ub' = r.ub
  /\ file_is_open' = FALSE

\* reader.Open(path): a file that cannot be opened returns false at once
OpenCall ==
  /\ opens < MaxOpens
  /\ \E inp \in UtocInputs, gb \in GarbageBytes :
       /\ utocInput' = inp
       /\ fileData' = UtocFileOf(inp)
       /\ IF inp.kind = "missing"
            THEN OpenTo([ReaderNow EXCEPT !.ret = "false"])
            ELSE OpenTo(Open(ReaderNow, UtocFileOf(inp), gb))
  /\ opens' = opens + 1
  /\ paths' = <<>>
  /\ UNCHANGED <<pakVars, recordVars>>

\* reader.GetAllFilePaths()
GetAllFilePathsCall ==
  /\ paths' = GetAllFilePaths(directory_index_)
  /\ UNCHANGED <<pakVars, utocInput, fileData, utocMembers, opened, open_offset,
                 sections, open_ub, opens, file_is_open, recordVars>>

NextUtoc == OpenCall \/ GetAllFilePathsCall

\* a UtocReader, opened on the files under test and asked for its paths
SpecUtoc == InitUtoc /\ [][NextUtoc]_vars

(***************************************************************************)
(* UTOC: GetAllFilePaths on directory indexes of every shape               *)
(***************************************************************************)

\* the directory indexes under test: up to three directories (0 the root, 1
\* its child, 2 a child or a sibling of 1), three files, four mount points
\* and two string tables
DirIndexes ==
  [mount_point : {<<>>, <<109>>, <<46, 46, 47>>, <<109, 47, 47>>},
   directory_entries :
     [name : {<<>>, <<0>>}, first_child_entry : {<<>>, <<1>>}, next_sibling_entry : {<<>>},
      first_file_entry : {<<>>, <<0>>}]
     \X [name : {<<0>>, <<1>>}, first_child_entry : {<<>>, <<2>>},
         next_sibling_entry : {<<>>, <<2>>}, first_file_entry : {<<>>, <<1>>}]
     \X [name : {<<1>>}, first_child_entry : {<<>>}, next_sibling_entry : {<<>>},
         first_file_entry : {<<>>, <<2>>}],
   file_entries :
     [name : {2}, next_file_entry : {<<>>, <<1>>}, user_data : {0}]
     \X [name : {2}, next_file_entry : {<<>>, <<2>>}, user_data : {1}]
     \X [name : {1, 3}, next_file_entry : {<<>>}, user_data : {2}],
   string_table : { << <<100>>, <<101>>, <<102>> >>,
                    << <<>>, <<47, 101>>, <<102>> >> }]

\* a reader whose directory index is one of DirIndexes
InitDir ==
  /\ PakAbsent
  /\ NoRecord
  /\ file_is_open = FALSE
  /\ utocInput = [kind |-> "none"]
  /\ fileData = <<>>
  /\ header_ = Zeros(HeaderSize)
  /\ chunk_ids_ = <<>>
  /\ chunk_offset_lengths_ = <<>>
  /\ chunk_perfect_hash_seeds_ = <<>>
  /\ chunk_indices_without_perfect_hash_ = <<>>
  /\ compression_blocks_ = <<>>
  /\ compression_methods_ = <<>>
  /\ chunk_metas_ = <<>>
  /\ directory_index_ \in DirIndexes
  /\ file_map_ = {0, 1, 2}
  /\ opened = "true"
  /\ open_offset = 0
  /\ sections = <<>>
  /\ open_ub = FALSE
  /\ opens = 1
  /\ paths = <<>>

NextDir == GetAllFilePathsCall

\* GetAllFilePaths as a function of the directory index
SpecDir == InitDir /\ [][NextDir]_vars

(***************************************************************************)
(* UTOC: the accessors of FIoOffsetAndLength and                           *)
(* FIoStoreTocCompressedBlockEntry.  An accessor sets its result to 0 and  *)
(* copies n bytes of the record over the start of it; on the little-endian *)
(* hosts the readers are built for these are the low n bytes of the result.*)
(***************************************************************************)

\* T result = 0; std::memcpy(&result, data + from, n): the bytes of result
memcpy_into_zero(width, data, from, n) ==
  SubSeq(data, from + 1, from + n) \o Zeros(width - n)

\* the uint64_t whose bytes are image, as the digits [top, mid, lo] of
\* top * 2^40 + mid * 2^24 + lo
uint64_of(image) ==
  [lo |-> image[1] + 256 * image[2] + 65536 * image[3],
   mid |-> image[4] + 256 * image[5],
   top |-> image[6] + 256 * image[7] + 65536 * image[8]]

\* the uint32_t whose bytes are image, for an image whose last byte is 0
uint32_of(image) == image[1] + 256 * image[2] + 65536 * image[3] + 16777216 * image[4]

\* FIoOffsetAndLength::GetOffset
OffsetAndLength_GetOffset(data) == uint64_of(memcpy_into_zero(8, data, 0, 5))

\* a GetLength that copies from data + 4
LengthFromByteFour(data) == uint64_of(memcpy_into_zero(8, data, 4, 5))

\* FIoOffsetAndLength::GetLength
OffsetAndLength_GetLength(data) == uint64_of(memcpy_into_zero(8, data, 5, 5))

\* FIoStoreTocCompressedBlockEntry::GetOffset
CompressedBlock_GetOffset(data) == uint64_of(memcpy_into_zero(8, data, 0, 5))

\* FIoStoreTocCompressedBlockEntry::GetCompressedSize
GetCompressedSize(data) == uint32_of(memcpy_into_zero(4, data, 5, 3))

\* FIoStoreTocCompressedBlockEntry::GetUncompressedSize
GetUncompressedSize(data) == uint32_of(memcpy_into_zero(4, data, 8, 3))

\* FIoStoreTocCompressedBlockEntry::GetCompressionMethodIndex
GetCompressionMethodIndex(data) == data[12]

\* the 10-byte and the 12-byte records under test, made of 5-byte and 3-byte
\* fields and a method index
RecordInputs ==
  LET Field5 == {Zeros(5), <<255, 255, 255, 255, 255>>, <<1, 2, 3, 4, 5>>,
                 <<0, 0, 0, 0, 128>>, <<255, 0, 0, 1, 0>>}
      Field3 == {Zeros(3), <<255, 255, 255>>, <<1, 2, 3>>, <<0, 0, 128>>}
  IN {a \o b : a \in Field5, b \in Field5}
     \cup {a \o c \o u \o <<m>> : a \in Field5, c \in Field3, u \in Field3, m \in {0, 7, 255}}

InitRecords ==
  /\ PakAbsent
  /\ UtocConstructed(Zeros(HeaderSize))
  /\ record \in RecordInputs
  /\ fields = <<>>

\* GetOffset() and GetLength() of an FIoOffsetAndLength
AccessOffsetAndLength ==
  /\ Len(record) = 10
  /\ fields = <<>>
  /\ fields' = [offset |-> OffsetAndLength_GetOffset(record),
                length |-> OffsetAndLength_GetLength(record)]
  /\ UNCHANGED <<pakVars, utocVars, record>>

\* the four accessors of an FIoStoreTocCompressedBlockEntry
AccessCompressedBlock ==
  /\ Len(record) = 12
  /\ fields = <<>>
  /\ fields' = [offset |-> CompressedBlock_GetOffset(record),
                compressed_size |-> GetCompressedSize(record),
                uncompressed_size |-> GetUncompressedSize(record),
                method_index |-> GetCompressionMethodIndex(record)]
  /\ UNCHANGED <<pakVars, utocVars, record>>

NextRecords == AccessOffsetAndLength \/ AccessCompressedBlock

\* the accessors as functions of the record
SpecRecords == InitRecords /\ [][NextRecords]_vars

(***************************************************************************)
(* UTOC: ReadString as a function of the bytes at the cursor               *)
(***************************************************************************)

\* a buffer that starts with a string and goes on with the two bytes of a
\* following field: byte strings of length 0..3 over NUL and 'a', and UTF-16
\* strings of 1..3 units over NUL, 'a' and U+20AC
InitStrings ==
  /\ PakAbsent
  /\ UtocConstructed(Zeros(HeaderSize))
  /\ fields = <<>>
  /\ \E n \in 0..3 :
       \/ \E t \in [1..n -> {0, 97}] : record = U32(n) \o t \o <<7, 9>>
       \/ /\ n > 0
          /\ \E u \in [1..n -> {<<0, 0>>, <<97, 0>>, <<172, 32>>}] :
               record = NegI32(n) \o Flatten(u) \o <<7, 9>>

\* ReadString(data, offset) with offset = 0 on the buffer
ReadStringCall ==
  /\ fields = <<>>
  /\ \E gb \in GarbageBytes : fields' = ReadString(record, 0, gb)
  /\ UNCHANGED <<pakVars, utocVars, record>>

\* ReadString on every buffer under test
SpecStrings == InitStrings /\ [][ReadStringCall]_vars

(***************************************************************************)
(* PAK: properties                                                         *)
(***************************************************************************)

\* a sequence of byte strings is strictly ascending
Ascending(q) == \A i \in 1..(Len(q) - 1) : LexLess(q[i], q[i + 1])

\* the elements of a sequence
Range(q) == {q[i] : i \in 1..Len(q)}

\* the file under test is a complete, unencrypted PAK
WellFormedPak == pakInput.kind = "pak" /\ pakInput.magicOk /\ pakInput.enc = 0

\* the paths written into the legacy index of the file under test
WrittenPaths ==
  [i \in 1..Len(LegacyIndexes[pakInput.idx].entries) |->
     LegacyIndexes[pakInput.idx].entries[i].path]

\* C1: the probe tries V11, V10, V9, V8B, V8A, V7, ..., V1 in this order and
\* never V0; the candidate whose footer and index both decode ends the probe,
\* version() is that candidate (for a complete unencrypted file, the version
\* it was written as), and nothing is attempted after the acceptance.
C1_ProbeOrder ==
  /\ [](/\ \A i \in 1..Len(attempts) : attempts[i] = V11 + 1 - i /\ attempts[i] # V0
        /\ pak_pc = "done" =>
             /\ reader
             /\ version = attempts[Len(attempts)]
             /\ WellFormedPak => version = pakInput.fv)
  /\ [][pak_pc = "done" => FALSE]_vars

\* C1 witness: V5 was accepted after V11 .. V6 had failed
C1_Witness == pak_pc = "done" /\ version = V5 /\ Len(attempts) = 8

\* C2 (as stated): once read_index has refused an encrypted index no older
\* candidate is attempted, no reader is built, and the error the constructor
\* throws is the encrypted-index one.
C2_RefusalSurfaces ==
  refusedAt # V0 =>
    /\ \A i \in 1..Len(attempts) : attempts[i] >= refusedAt
    /\ pak_pc # "done"
    /\ pak_pc = "failed" => thrown = "Index is encrypted, decryption not supported"

\* C3 (as stated): when the open fails on an encrypted index of a V7+ file,
\* encryption_guid() can be asked and is the UUID written in the footer.
C3_GuidReportedAfterRefusal ==
  (pak_pc = "failed" /\ refusedAt >= V7) =>
    (reader /\ encryption_guid = <<WrittenGuid>>)

\* C4: the probe makes at most 12 attempts; when all candidates have failed
\* the constructor throws, and a failed construction leaves no reader.
C4_AllFail ==
  /\ [](/\ Len(attempts) <= 12
        /\ pak_pc = "failed" => (~reader /\ thrown # "")
        /\ reader => pak_pc = "done")
  /\ [][(pak_pc = "footer" /\ v < V1) =>
          (pak_pc' = "failed" /\ thrown' = "Failed to read pak file" /\ ~reader')]_vars

\* C4 witness: all twelve candidates failed and the constructor threw
C4_Witness == pak_pc = "failed" /\ Len(attempts) = 12 /\ thrown = "Failed to read pak file"

\* the reader was built from a complete unencrypted legacy-index file
LegacyOpened ==
  pak_pc = "done" /\ WellFormedPak /\ version_to_major(pakInput.fv) < PathHashIndex

\* the place at which path p is first written into the index
FirstWritten(p) ==
  CHOOSE i \in 1..Len(WrittenPaths) :
    WrittenPaths[i] = p /\ \A j \in 1..(i - 1) : WrittenPaths[j] # p

\* C5 (as stated): files() is the stored paths, each once, without the mount
\* point, in the order in which they appear in the index.
C5_InsertionOrder ==
  LegacyOpened =>
    /\ Range(files) = Range(WrittenPaths)
    /\ Len(files) = Cardinality(Range(WrittenPaths))
    /\ \A i, j \in 1..Len(files) :
         i < j => FirstWritten(files[i]) < FirstWritten(files[j])

\* C5 (amended): files() is the distinct stored paths, each once, as stored
\* (no mount point), in ascending byte order.
C5_SortedDistinct ==
  LegacyOpened =>
    /\ Range(files) = Range(WrittenPaths)
    /\ Len(files) = Cardinality(Range(WrittenPaths))
    /\ Ascending(files)

\* C5 witness: an index whose entries are not in ascending order was read
C5_Witness == LegacyOpened /\ pakInput.idx = 2 /\ Len(files) = 3

\* the non-empty prefixes of path that end just before a '/'
Ancestors(path) ==
  {SubSeq(path, 1, i - 1) : i \in {j \in 1..Len(path) : path[j] = Slash}} \ {<<>>}

\* C6: directories() is, ascending and without duplicates, the set of the
\* ancestors of the paths of files(); a path without '/' contributes none.
C6_Directories ==
  pak_pc = "done" =>
    /\ Range(directories) = UNION {Ancestors(files[i]) : i \in 1..Len(files)}
    /\ Ascending(directories)

\* C6 witness: a two-level path contributed both of its ancestors
C6_Witness ==
  pak_pc = "done" /\ <<97, 47, 98, 47, 120>> \in Range(files)
  /\ <<97>> \in Range(directories) /\ <<97, 47, 98>> \in Range(directories)

(***************************************************************************)
(* UTOC: properties of GetAllFilePaths                                     *)
(***************************************************************************)

\* a sequence without repetition
NoDup(q) == \A i, j \in 1..Len(q) : q[i] = q[j] => i = j

\* the place of x in q
Pos(q, x) == CHOOSE i \in 1..Len(q) : q[i] = x

\* the chain start, next[start], next[next[start]], ..., cut after n entries
RECURSIVE ChainFrom(_, _, _)
ChainFrom(next, start, n) ==
  IF start = <<>> \/ n = 0 THEN <<>>
  ELSE <<start[1]>> \o ChainFrom(next, next[start[1]], n - 1)

\* o is absent or an index into a vector of n elements
InVector(o, n) == o = <<>> \/ o[1] < n

\* every index of the directory index points into its vector
InRange(di) ==
  /\ \A i \in 1..Len(di.directory_entries) :
       /\ InVector(di.directory_entries[i].name, Len(di.string_table))
       /\ InVector(di.directory_entries[i].first_child_entry, Len(di.directory_entries))
       /\ InVector(di.directory_entries[i].next_sibling_entry, Len(di.directory_entries))
       /\ InVector(di.directory_entries[i].first_file_entry, Len(di.file_entries))
  /\ \A i \in 1..Len(di.file_entries) :
       /\ di.file_entries[i].name < Len(di.string_table)
       /\ InVector(di.file_entries[i].next_file_entry, Len(di.file_entries))

\* the directories and the files of a directory index
DirIds(di) == 0..(Len(di.directory_entries) - 1)
FileIds(di) == 0..(Len(di.file_entries) - 1)

\* the child directories of d: first_child_entry, then next_sibling_entry
ChildrenOf(di, d) ==
  ChainFrom([i \in DirIds(di) |-> di.directory_entries[i + 1].next_sibling_entry],
            di.directory_entries[d + 1].first_child_entry, Len(di.directory_entries) + 1)

\* the files of d: first_file_entry, then next_file_entry
FilesOf(di, d) ==
  ChainFrom([i \in FileIds(di) |-> di.file_entries[i + 1].next_file_entry],
            di.directory_entries[d + 1].first_file_entry, Len(di.file_entries) + 1)

\* well-formed: the indexes are in range, the chains end, no directory is the
\* child of two directories or of itself, directory 0 is nobody's child, and
\* no file is in two chains
WellFormedIndex(di) ==
  /\ di.directory_entries # <<>>
  /\ InRange(di)
  /\ \A d \in DirIds(di) : NoDup(ChildrenOf(di, d)) /\ NoDup(FilesOf(di, d))
  /\ \A d \in DirIds(di) : 0 \notin Range(ChildrenOf(di, d)) /\ d \notin Range(ChildrenOf(di, d))
  /\ \A d, e \in DirIds(di) :
       d # e => /\ Range(ChildrenOf(di, d)) \cap Range(ChildrenOf(di, e)) = {}
                /\ Range(FilesOf(di, d)) \cap Range(FilesOf(di, e)) = {}

\* the directories reached from S in at most n steps down
RECURSIVE ReachDirs(_, _, _)
ReachDirs(di, S, n) ==
  IF n = 0 THEN S
  ELSE ReachDirs(di, S \cup UNION {Range(ChildrenOf(di, d)) : d \in S}, n - 1)

\* the directories and the files reachable from directory 0
ReachableDirs(di) == ReachDirs(di, {0}, Len(di.directory_entries))
ReachableFiles(di) == UNION {Range(FilesOf(di, d)) : d \in ReachableDirs(di)}

\* the directories from the root down to d
RECURSIVE DirsTo(_, _, _)
DirsTo(di, d, n) ==
  IF d = 0 \/ n = 0 THEN <<d>>
  ELSE Append(DirsTo(di, CHOOSE p \in DirIds(di) : d \in Range(ChildrenOf(di, p)), n - 1), d)

\* the names of the directories ds that have one
RECURSIVE NamesAlong(_, _)
NamesAlong(di, ds) ==
  IF ds = <<>> THEN <<>>
  ELSE (IF di.directory_entries[Head(ds) + 1].name = <<>> THEN <<>>
        ELSE <<di.string_table[di.directory_entries[Head(ds) + 1].name[1] + 1]>>)
       \o NamesAlong(di, Tail(ds))

\* the directory whose chain holds file f
DirOfFile(di, f) == CHOOSE d \in ReachableDirs(di) : f \in Range(FilesOf(di, d))

\* the names on the way to file f, its own name last
Segments(di, f) ==
  Append(NamesAlong(di, DirsTo(di, DirOfFile(di, f), Len(di.directory_entries))),
         di.string_table[di.file_entries[f + 1].name + 1])

\* text followed by the segments, a '/' put before a segment unless the text
\* before it is empty or ends in '/'
RECURSIVE Joined(_, _)
Joined(text, segs) ==
  IF segs = <<>> THEN text
  ELSE LET front == Joined(text, SubSeq(segs, 1, Len(segs) - 1))
       IN  front
           \o (IF front = <<>> \/ front[Len(front)] = Slash THEN <<>> ELSE <<Slash>>)
           \o segs[Len(segs)]

\* s holds "//"
HasRepeatedSlash(s) == \E i \in 1..(Len(s) - 1) : s[i] = Slash /\ s[i + 1] = Slash

\* the directories at or below d, and the files in them
Under(di, d) ==
  {e \in ReachableDirs(di) : d \in Range(DirsTo(di, e, Len(di.directory_entries)))}
FilesUnder(di, d) == UNION {Range(FilesOf(di, e)) : e \in Under(di, d)}

\* GetAllFilePaths was called on a well-formed directory index
WellFormedCall == paths # <<>> /\ WellFormedIndex(directory_index_)

\* one path per reachable file, each the mount point joined with the names of
\* the enclosing directories and of the file
OnePathPerFile(di, got) ==
  /\ ~got.ub /\ ~got.diverged
  /\ NoDup(got.emitted)
  /\ Range(got.emitted) = ReachableFiles(di)
  /\ Len(got.result) = Len(got.emitted)
  /\ \A i \in 1..Len(got.emitted) :
       got.result[i] = Joined(di.mount_point, Segments(di, got.emitted[i]))

\* a directory's files come in chain order and before the files below its
\* children; the children come in first_child / next_sibling order
TraversalOrder(di, em) ==
  \A d \in ReachableDirs(di) :
    /\ \A i, j \in 1..Len(FilesOf(di, d)) :
         i < j => Pos(em, FilesOf(di, d)[i]) < Pos(em, FilesOf(di, d)[j])
    /\ \A f \in Range(FilesOf(di, d)) : \A c \in Range(ChildrenOf(di, d)) :
         \A g \in FilesUnder(di, c) : Pos(em, f) < Pos(em, g)
    /\ \A i, j \in 1..Len(ChildrenOf(di, d)) :
         i < j => \A f \in FilesUnder(di, ChildrenOf(di, d)[i]) :
                    \A g \in FilesUnder(di, ChildrenOf(di, d)[j]) : Pos(em, f) < Pos(em, g)

EncryptedFile ==
  /\ opens > 0
  /\ utocInput.kind = "utoc"
  /\ Len(fileData) >= HeaderSize
  /\ (fileData[81] \div Encrypted) % 2 = 1

\* where the compression-method section of the file under test ends
MethodsEnd == HeaderSize + Len(UtocFrontBytes(utocInput))

\* C8: Open on a file with the Encrypted flag returns false whatever the other
\* flags are, without having touched the signature, directory-index or
\* chunk-metadata section; when the magic is right it returns after the
\* compression-method section, its offset at the end of that section.
C8_EncryptedRefused ==
  EncryptedFile =>
    /\ opened = "false"
    /\ \A i \in 1..Len(sections) :
         sections[i] \notin {"signatures", "directory_index_", "chunk_metas_"}
    /\ utocInput.magicOk =>
         /\ sections[Len(sections)] = "compression_methods_"
         /\ open_offset = MethodsEnd

\* C8 witness: a complete file with all four flags was refused after its
\* compression methods
C8_Witness ==
  /\ EncryptedFile
  /\ utocInput.flags = Compressed + Encrypted + Signed + Indexed
  /\ utocInput.keep = 0 /\ utocInput.shape = 2
  /\ opened = "false"
  /\ compression_methods_ = <<NameZlib, NameOodle>>
  /\ open_offset = MethodsEnd

\* C9 (as stated): an Open that returns false leaves the reader's model as it
\* was before the call or empty, with nothing of the rejected file in it.
C9_FailedOpenDiscards ==
  [][(opens' # opens /\ opened' = "false") =>
       \/ utocMembers' = utocMembers
       \/ utocMembers' = <<header_, <<>>, <<>>, <<>>, <<>>, <<>>, <<>>, <<>>,
                           EmptyDirectoryIndex, {}>>]_vars

\* C10 (as stated): after a successful Open the file begins with the magic
\* and the header's toc_header_size is 144.
C10_MagicAndHeaderSize ==
  opened = "true" =>
    /\ SubSeq(fileData, 1, 16) = TOC_MAGIC
    /\ toc_header_size(header_) = HeaderSize

\* the version byte of the file the last Open was given
FileVersion == fileData[17]

\* C11 (as stated): Open returns false on every file whose version byte is
\* Invalid (0) or not one of 1..8, and after a successful Open
\* GetHeader().version is one of the eight known versions.
C11_VersionValidated ==
  /\ (opens > 0 /\ utocInput.kind = "utoc" /\ FileVersion \notin 1..ReplaceIoChunkHashWithIoHash)
       => opened = "false"
  /\ opened = "true" => toc_version(header_) \in 1..ReplaceIoChunkHashWithIoHash

\* C12 (as stated): no Open reads a byte at or beyond the end of the file
\* buffer or of the directory-index buffer, and a file that is too short for
\* what its header or its counts declare (a file under 144 bytes included)
\* makes Open fail.
C12_NoReadBeyondBuffer ==
  opens > 0 =>
    /\ ~open_ub
    /\ (utocInput.kind # "missing" /\ Len(fileData) < HeaderSize) => opened = "false"
    /\ (utocInput.kind = "utoc" /\ utocInput.keep # 0 /\ Len(fileData) < Len(UtocWhole(utocInput)))
         => opened = "false"

(***************************************************************************)
(* PAK: properties of the entries and of the footer                        *)
(***************************************************************************)

\* C13 (as stated): in an opened PAK every entry with a compression slot has
\* a slot below the length of footer_.compression, and the version_major of
\* the archive is at least CompressionEncryption.
C13_SlotInRange ==
  pak_pc = "done" =>
    \A path \in DOMAIN entries_ :
      entries_[path].compression_slot # <<>> =>
        /\ entries_[path].compression_slot[1] < Len(footer_.compression)
        /\ footer_.version_major >= CompressionEncryption

C15_ListLengthZeroBelowV8A ==
  pak_pc = "done" =>
    Len(footer_.compression) = (IF version < V8A THEN 0 ELSE IF version = V8A THEN 4 ELSE 5)

\* C15 (amended): after a successful open footer_.compression has 4
\* elements for V8A and 5 from V8B on, as many as names are read; below V8A
\* no name is read and the list is the three defaults Zlib, Gzip, Oodle.
C15_ListLength ==
  pak_pc = "done" =>
    /\ Len(footer_.compression) = (IF version < V8A THEN 3 ELSE IF version = V8A THEN 4 ELSE 5)
    /\ version < V8A => footer_.compression = << <<Zlib>>, <<Gzip>>, <<Oodle>> >>

\* C15 witness: a V5 archive was opened and carries the three defaults; no
\* name was read from its footer
C15_Witness ==
  /\ pak_pc = "done" /\ WellFormedPak /\ version = V5
  /\ compression_count(version) = 0
  /\ footer_.compression = << <<Zlib>>, <<Gzip>>, <<Oodle>> >>

(***************************************************************************)
(* UTOC: properties of the directory index Open accepted                   *)
(***************************************************************************)

\* GetAllFilePaths was called on a reader whose last Open returned true
ListedAfterOpen == opened = "true" /\ paths # <<>>

\* C16 (as stated): on a directory index that Open accepted GetAllFilePaths
\* never uses a directory, file or name index outside its vector.
C16_IndexesInRange == ListedAfterOpen => ~paths.ub

\* C17 (as stated): on a directory index that Open accepted GetAllFilePaths
\* ends, having emitted no file entry twice.
C17_TraversalEnds == ListedAfterOpen => (~paths.diverged /\ NoDup(paths.emitted))

\* C18: after a successful Open chunk_ids_, chunk_offset_lengths_ and
\* chunk_metas_ have toc_entry_count elements, compression_blocks_ has
\* toc_compressed_block_entry_count and compression_methods_ has
\* compression_method_name_count, with or without the Indexed flag.
C18_DeclaredLengths ==
  opened = "true" =>
    /\ Len(chunk_ids_) = toc_entry_count(header_)
    /\ Len(chunk_offset_lengths_) = toc_entry_count(header_)
    /\ Len(chunk_metas_) = toc_entry_count(header_)
    /\ Len(compression_blocks_) = toc_compressed_block_entry_count(header_)
    /\ Len(compression_methods_) = compression_method_name_count(header_)

\* C18 witness: a file without the Indexed flag that declares 2 chunks, 1
\* block and 2 methods was opened
C18_Witness ==
  /\ opened = "true" /\ ~IsIndexed(header_)
  /\ toc_entry_count(header_) = 2 /\ Len(chunk_metas_) = 2
  /\ Len(compression_blocks_) = 1 /\ Len(compression_methods_) = 2

(***************************************************************************)
(* Both readers: the file handle                                           *)
(***************************************************************************)

\* C19 (as stated): once a PakReader has been constructed, and once
\* UtocReader::Open has returned, the reader holds no open file.
C19_HandleReleased ==
  /\ pak_pc = "done" => ~stream_is_open
  /\ opened # "" => ~file_is_open

(***************************************************************************)
(* UTOC: properties of the record accessors                                *)
(***************************************************************************)

\* x is below 2^40
Below2To40(x) == x.top = 0 /\ x.mid < 65536 /\ x.lo < 16777216

\* the low 5 bytes of x, little-endian
Bytes40(x) ==
  <<x.lo % 256, (x.lo \div 256) % 256, (x.lo \div 65536) % 256,
    x.mid % 256, (x.mid \div 256) % 256>>

\* the low 3 bytes of n, little-endian
Bytes24(n) == <<n % 256, (n \div 256) % 256, (n \div 65536) % 256>>

\* C20: every accessor result fits its field (offset and length below 2^40,
\* the sizes below 2^24, the method index below 2^8), and the results written
\* back little-endian, 5+5 bytes or 5+3+3+1 bytes, are the record.
C20_AccessorsRoundTrip ==
  fields # <<>> =>
    IF Len(record) = 10
      THEN /\ Below2To40(fields.offset) /\ Below2To40(fields.length)
           /\ Bytes40(fields.offset) \o Bytes40(fields.length) = record
      ELSE /\ Below2To40(fields.offset)
           /\ fields.compressed_size < 16777216 /\ fields.uncompressed_size < 16777216
           /\ fields.method_index < 256
           /\ Bytes40(fields.offset) \o Bytes24(fields.compressed_size)
                \o Bytes24(fields.uncompressed_size) \o <<fields.method_index>> = record

\* C20 witness: the offset 2^40 - 1 and the length 2^39 were read out of a
\* 10-byte record
C20_Witness ==
  /\ fields # <<>> /\ Len(record) = 10
  /\ fields.offset = [lo |-> 16777215, mid |-> 65535, top |-> 0]
  /\ fields.length = [lo |-> 0, mid |-> 32768, top |-> 0]

(***************************************************************************)
(* PAK: properties of the footer decode                                    *)
(***************************************************************************)

\* the footer size as the format states it
FooterSizeFormula(ver) ==
  44 + (IF ver >= V7 THEN 16 ELSE 0) + (IF ver >= V4 THEN 1 ELSE 0)
     + (IF ver = V9 THEN 1 ELSE 0) + (IF ver >= V8A THEN 128 ELSE 0)
     + (IF ver >= V8B THEN 32 ELSE 0)

\* read_footer(v) has returned normally after a seek that stayed in the file
FooterDecoded == pak_pc = "index" /\ FL >= get_footer_size(v)

\* C21: get_footer_size is 44, +16 from V7, +1 from V4, +1 for V9, +128 from
\* V8A, +32 from V8B; a footer decode that returned normally after starting at
\* file_size - footer_size(version) has read without a failure up to the end
\* of the file, and holds the index offset, index size and UUID that were
\* written at the places the formula gives.
C21_FooterConsumed ==
  /\ \A ver \in V1..V11 : get_footer_size(ver) = FooterSizeFormula(ver)
  /\ FooterDecoded =>
       /\ ~stream_.fail
       /\ stream_.pos = FL
       /\ v = pakInput.fv => footer_.index_offset = U64(DataLen)
       /\ pakInput.kind = "pak" =>
            FL = DataLen + Val64(footer_.index_size) + FooterSizeFormula(v)
                 + (IF v >= V10 THEN Len(FdiBodyBytes(FdiIndexes[pakInput.idx])) ELSE 0)
       /\ pakInput.kind = "short" => footer_.index_size = U64(pakInput.len)
       /\ (v >= V7 /\ pakInput.kind # "twofooter") => footer_.encryption_uuid = <<WrittenGuid>>

\* C21 witness: the V8B footer of a V8B file has been decoded
C21_Witness ==
  FooterDecoded /\ v = V8B /\ pakInput.fv = V8B /\ stream_.pos = FL /\ Len(footer_.compression) = 5

\* the first byte after the declared index
DeclaredIndexEnd == Val64(footer_.index_offset) + Val64(footer_.index_size)

\* C22: an accepted attempt on a pre-V10 file, whose index is read front to
\* back, has left the stream at or before index_offset + index_size.
C22_IndexWithinDeclaredSize ==
  (pak_pc = "done" /\ v < V10) => stream_.pos <= DeclaredIndexEnd

(***************************************************************************)
(* UTOC: properties of the section layout                                  *)
(***************************************************************************)

\* Open returned true on a complete file without reading outside a buffer
CleanOpen ==
  opened = "true" /\ ~open_ub /\ utocInput.kind = "utoc" /\ utocInput.keep = 0

\* where the chunk-metadata section of the file under test starts
MetaStart == Len(fileData) - Len(UtocMetaBytes(utocInput))

\* the size of a chunk-metadata record and of the hash in it, as stated
StatedMetaSize == IF FileVersion >= ReplaceIoChunkHashWithIoHash THEN 24 ELSE 33
StatedHashSize == IF FileVersion >= ReplaceIoChunkHashWithIoHash THEN 20 ELSE 32

\* C23: the chunk-metadata records are decoded 24 bytes apart (20-byte hash,
\* flag byte, 3 pad bytes) from ReplaceIoChunkHashWithIoHash on and 33 bytes
\* apart (32-byte hash, flag byte) before: record i is taken from
\* section_start + i * 24 resp. 33, its flag byte is the byte after its hash,
\* and the cursor ends toc_entry_count records after the section start.
C23_MetaStride ==
  CleanOpen =>
    /\ open_offset = MetaStart + Len(chunk_metas_) * StatedMetaSize
    /\ \A i \in 1..Len(chunk_metas_) :
         /\ SubSeq(chunk_metas_[i].chunk_hash, 1, StatedHashSize)
              = SubSeq(fileData, MetaStart + (i - 1) * StatedMetaSize + 1,
                       MetaStart + (i - 1) * StatedMetaSize + StatedHashSize)
         /\ chunk_metas_[i].flags
              = fileData[MetaStart + (i - 1) * StatedMetaSize + StatedHashSize + 1]

(***************************************************************************)
(* UTOC: properties of ReadString                                          *)
(***************************************************************************)

\* the length field of the string at the start of the buffer
StringLength == ValI32(SubSeq(record, 1, 4))

\* C24: ReadString moves the cursor by 4 + L for a length L > 0, by 4 for
\* L = 0 and by 4 + 2 * |L| for L < 0, wherever a NUL lies among the units.
C24_StringAdvance ==
  fields # <<>> =>
    fields.off = 4 + (IF StringLength >= 0 THEN StringLength ELSE 2 * (0 - StringLength))

\* the size of the hash tables of the file under test, as stated
StatedHashTables ==
  IF FileVersion >= PerfectHashWithOverflow
    THEN 4 * (toc_chunk_perfect_hash_seeds_count(header_)
              + toc_chunks_without_perfect_hash_count(header_))
  ELSE IF FileVersion = PerfectHash THEN 4 * toc_chunk_perfect_hash_seeds_count(header_)
  ELSE 0

\* where the signature section starts, as stated
StatedSignatureStart ==
  HeaderSize + 12 * toc_entry_count(header_) + 10 * toc_entry_count(header_)
  + StatedHashTables + 12 * toc_compressed_block_entry_count(header_)
  + compression_method_name_count(header_) * compression_method_name_length(header_)

\* the size of the signature section, as stated
StatedSignatures ==
  IF IsSigned(header_)
    THEN 4 + 2 * Val32(SubSeq(fileData, StatedSignatureStart + 1, StatedSignatureStart + 4))
         + 4 + 20 * toc_compressed_block_entry_count(header_)
    ELSE 0

\* where the directory index starts, as stated
StatedDirectoryStart == StatedSignatureStart + StatedSignatures

\* Open was called on a complete unencrypted file with a directory index
IndexedFileOpened ==
  /\ opened # "" /\ utocInput.kind = "utoc" /\ utocInput.magicOk /\ utocInput.keep = 0
  /\ (utocInput.flags \div Encrypted) % 2 = 0
  /\ (utocInput.flags \div Indexed) % 2 = 1
  /\ UtocShapes[utocInput.shape].indexed

WrittenFdi == FdiIndexes[pakInput.idx]

\* a well-formed V10+ file with a full directory index has been accepted
FdiOpened == pak_pc = "done" /\ WellFormedPak /\ pakInput.fv >= V10 /\ WrittenFdi.fdi

\* the (directory, slot) pairs of the written index whose offset is valid or not
SlotPaths(valid) ==
  {full_path(WrittenFdi.dirs[i].name, WrittenFdi.dirs[i].files[j].name) :
     <<i, j>> \in {ij \in (1..Len(WrittenFdi.dirs)) \X (1..3) :
                     /\ ij[2] <= Len(WrittenFdi.dirs[ij[1]].files)
                     /\ WrittenFdi.dirs[ij[1]].files[ij[2]].valid = valid}}

\* C26: for a V10+ pak with the full-directory-index flag set, files() holds
\* exactly the paths of the slots whose encoded offset is not 0x80000000, the
\* slots with 0x80000000 add no path, and the stream is back right after the
\* hash of the full directory index, which ends the primary index.
C26_FullDirectoryIndex ==
  FdiOpened =>
    /\ Range(files) = SlotPaths(TRUE)
    /\ SlotPaths(FALSE) \cap Range(files) = {}
    /\ ~stream_.fail
    /\ stream_.pos = DataLen + Len(PathHashIndexBytes(WrittenFdi, 0))

\* C26 witness: the index with the invalid slot "a/b/d" was read from a V11
\* file, and its three valid slots are listed
C26_Witness ==
  /\ FdiOpened /\ pakInput.fv = V11 /\ pakInput.idx = 2
  /\ SlotPaths(FALSE) = {<<97, 47, 98, 47, 100>>}
  /\ files = << <<97, 47, 98, 47, 99>>, <<101, 47, 102>>, <<114, 46, 120>> >>

\* s without the '/' characters at its end
RECURSIVE Rtrim(_)
Rtrim(s) ==
  IF s # <<>> /\ s[Len(s)] = Slash THEN Rtrim(SubSeq(s, 1, Len(s) - 1)) ELSE s

\* rtrim(dir, "/") + "/" + file_name with the leading '/' stripped
StatedPath(dir, file_name) ==
  IF Rtrim(dir) = <<>> THEN file_name ELSE
  IF Rtrim(dir)[1] = Slash THEN Tail(Rtrim(dir)) \o <<Slash>> \o file_name
  ELSE Rtrim(dir) \o <<Slash>> \o file_name

\* C27: no path of an opened pak begins with '/', whichever index shape it
\* was read from; a path read from a full directory index is the directory
\* without its trailing '/' characters, '/', the file name, without the
\* leading '/'.
C27_NoLeadingSlash ==
  pak_pc = "done" =>
    /\ \A i \in 1..Len(files) : files[i] = <<>> \/ files[i][1] # Slash
    /\ FdiOpened =>
         Range(files) =
           {StatedPath(WrittenFdi.dirs[i].name, WrittenFdi.dirs[i].files[j].name) :
              <<i, j>> \in {ij \in (1..Len(WrittenFdi.dirs)) \X (1..3) :
                              /\ ij[2] <= Len(WrittenFdi.dirs[ij[1]].files)
                              /\ WrittenFdi.dirs[ij[1]].files[ij[2]].valid}}

(***************************************************************************)
(* PAK: properties of the probe's state                                    *)
(***************************************************************************)

\* the candidate the file was written as has been accepted
WrittenVersionAccepted ==
  pak_pc = "done" /\ pakInput.kind \in {"pak", "short", "twofooter"} /\ v = pakInput.fv

\* C28: after a successful open the entry map and the mount point hold only
\* what the accepted attempt decoded: the paths and the mount point of the
\* index the accepted footer names, whatever earlier attempts had inserted.
C28_AttemptsIsolated ==
  WrittenVersionAccepted =>
    IF v >= V10
      THEN /\ mount_point_ = WrittenFdi.mount
           /\ DOMAIN entries_ = (IF WrittenFdi.fdi THEN SlotPaths(TRUE) ELSE {})
      ELSE /\ mount_point_ = LegacyIndexes[pakInput.idx].mount
           /\ DOMAIN entries_ = Range(WrittenPaths)

(***************************************************************************)
(* UTOC: properties of a reader that is opened more than once              *)
(***************************************************************************)

\* C29: after each successful Open the reader shows the file just opened
\* only: without the Indexed flag (or with directory_index_size 0)
\* GetAllFilePaths returns nothing, and below PerfectHash the seed and
\* overflow vectors are empty, whatever an earlier Open had decoded.
C29_OnlyLastFile ==
  (opened = "true" /\ utocInput.kind = "utoc") =>
    /\ (~IsIndexed(header_) \/ directory_index_size(header_) = 0) =>
         GetAllFilePaths(directory_index_).emitted = <<>>
    /\ FileVersion < PerfectHash =>
         /\ chunk_perfect_hash_seeds_ = <<>>
         /\ chunk_indices_without_perfect_hash_ = <<>>

(***************************************************************************)
(* PAK: properties of the encryption queries                               *)
(***************************************************************************)

\* C30: for every constructed PakReader encrypted_index() is false, and
\* encryption_guid() is present exactly when the accepted version is V7 or
\* later, that is when its version_major is at least EncryptionKeyGuid.
C30_EncryptionQueries ==
  pak_pc = "done" =>
    /\ ~encrypted_index
    /\ encryption_guid # <<>> <=> version >= V7
    /\ encryption_guid # <<>> <=> version_to_major(version) >= EncryptionKeyGuid

\* C30 witness: a V7 file was opened, its UUID is reported; the V6 case is
\* the state of the same probe run on a V6 file
C30_Witness ==
  /\ pak_pc = "done" /\ version = V7 /\ pakInput.fv = V7
  /\ encryption_guid = <<WrittenGuid>>
  /\ ~encrypted_index

====
